---- MODULE Spec2Model ----
(***************************************************************************)
(* Procedural Kolam pattern synthesis (src/ai_kolam_generator.py):         *)
(* EnhancedKolamGenerator's prompt analysis, guidance validation and the   *)
(* eight archetype generators, with Python's lists kept as sequences and   *)
(* its dicts as functions on the keys present.                             *)
(*                                                                         *)
(* Floating point.  The generators truncate radius * cos(angle) with       *)
(* int().  The cosine and sine values below are the IEEE doubles the       *)
(* source expressions evaluate to, cut to six decimals toward zero, so     *)
(* that a double a hair under 0.5 (cos(2*pi/3) = -0.4999999999999998)      *)
(* stays under it and int(2 * cos) is 0 as in the program, not -1.         *)
(***************************************************************************)
EXTENDS Integers, Sequences, FiniteSets, TLC

\* Number of decimals kept of a double: values are integers scaled by FixScale.
FixScale == 1000000

\* CosTab[n][i+1]: math.cos(2 * math.pi * i / n) as an IEEE double, cut to FixScale
\* decimals toward zero (n in 1..72, i in 0..n-1).
CosTab ==
  <<
     <<1000000>>,
     <<1000000, -1000000>>,
     <<1000000, -499999, -500000>>,
     <<1000000, 0, -1000000, 0>>,
     <<1000000, 309016, -809016, -809016, 309016>>,
     <<1000000, 500000, -499999, -1000000, -500000, 500000>>,
     <<1000000, 623489, -222520, -900968, -900968, -222520, 623489>>,
     <<1000000, 707106, 0, -707106, -1000000, -707106, 0, 707106>>,
     <<1000000, 766044, 173648, -499999, -939692, -939692, -500000, 173648, 766044>>,
     <<1000000, 809016, 309016, -309016, -809016, -1000000, -809016, -309016, 309016, 809016>>,
     <<1000000, 841253, 415415, -142314, -654860, -959492, -959492, -654860, -142314, 415415,
       841253>>,
     <<1000000, 866025, 500000, 0, -499999, -866025, -1000000, -866025, -500000, 0, 500000,
       866025>>,
     <<1000000, 885456, 568064, 120536, -354604, -748510, -970941, -970941, -748510, -354604,
       120536, 568064, 885456>>,
     <<1000000, 900968, 623489, 222520, -222520, -623489, -900968, -1000000, -900968, -623489,
       -222520, 222520, 623489, 900968>>,
     <<1000000, 913545, 669130, 309016, -104528, -499999, -809016, -978147, -978147, -809016,
       -500000, -104528, 309016, 669130, 913545>>,
     <<1000000, 923879, 707106, 382683, 0, -382683, -707106, -923879, -1000000, -923879,
       -707106, -382683, 0, 382683, 707106, 923879>>,
     <<1000000, 932472, 739008, 445738, 92268, -273662, -602634, -850217, -982973, -982973,
       -850217, -602634, -273662, 92268, 445738, 739008, 932472>>,
     <<1000000, 939692, 766044, 500000, 173648, -173648, -499999, -766044, -939692, -1000000,
       -939692, -766044, -500000, -173648, 173648, 499999, 766044, 939692>>,
     <<1000000, 945817, 789140, 546948, 245485, -82579, -401695, -677281, -879473, -986361,
       -986361, -879473, -677281, -401695, -82579, 245485, 546948, 789140, 945817>>,
     <<1000000, 951056, 809016, 587785, 309016, 0, -309016, -587785, -809016, -951056, -1000000,
       -951056, -809016, -587785, -309016, 0, 309016, 587785, 809016, 951056>>,
     <<1000000, 955572, 826238, 623489, 365341, 74730, -222520, -499999, -733051, -900968,
       -988830, -988830, -900968, -733051, -500000, -222520, 74730, 365341, 623489, 826238,
       955572>>,
     <<1000000, 959492, 841253, 654860, 415415, 142314, -142314, -415415, -654860, -841253,
       -959492, -1000000, -959492, -841253, -654860, -415415, -142314, 142314, 415415, 654860,
       841253, 959492>>,
     <<1000000, 962917, 854419, 682553, 460065, 203456, -68242, -334879, -576680, -775711,
       -917211, -990685, -990685, -917211, -775711, -576680, -334879, -68242, 203456, 460065,
       682553, 854419, 962917>>,
     <<1000000, 965925, 866025, 707106, 500000, 258819, 0, -258819, -499999, -707106, -866025,
       -965925, -1000000, -965925, -866025, -707106, -500000, -258819, 0, 258819, 500000,
       707106, 866025, 965925>>,
     <<1000000, 968583, 876306, 728968, 535826, 309016, 62790, -187381, -425779, -637423,
       -809016, -929776, -992114, -992114, -929776, -809016, -637423, -425779, -187381, 62790,
       309016, 535826, 728968, 876306, 968583>>,
     <<1000000, 970941, 885456, 748510, 568064, 354604, 120536, -120536, -354604, -568064,
       -748510, -885456, -970941, -1000000, -970941, -885456, -748510, -568064, -354604,
       -120536, 120536, 354604, 568064, 748510, 885456, 970941>>,
     <<1000000, 973044, 893632, 766044, 597158, 396079, 173648, -58144, -286803, -499999,
       -686241, -835487, -939692, -993238, -993238, -939692, -835487, -686241, -500000, -286803,
       -58144, 173648, 396079, 597158, 766044, 893632, 973044>>,
     <<1000000, 974927, 900968, 781831, 623489, 433883, 222520, 0, -222520, -433883, -623489,
       -781831, -900968, -974927, -1000000, -974927, -900968, -781831, -623489, -433883,
       -222520, 0, 222520, 433883, 623489, 781831, 900968, 974927>>,
     <<1000000, 976620, 907575, 796093, 647386, 468408, 267528, 54138, -161781, -370138,
       -561187, -725995, -856857, -947653, -994137, -994137, -947653, -856857, -725995, -561187,
       -370138, -161781, 54138, 267528, 468408, 647386, 796093, 907575, 976620>>,
     <<1000000, 978147, 913545, 809016, 669130, 500000, 309016, 104528, -104528, -309016,
       -499999, -669130, -809016, -913545, -978147, -1000000, -978147, -913545, -809016,
       -669130, -500000, -309016, -104528, 104528, 309016, 500000, 669130, 809016, 913545,
       978147>>,
     <<1000000, 979529, 918957, 820763, 688966, 528964, 347305, 151427, -50649, -250652,
       -440394, -612105, -758758, -874346, -954139, -994869, -994869, -954139, -874346, -758758,
       -612105, -440394, -250652, -50649, 151427, 347305, 528964, 688966, 820763, 918957,
       979529>>,
     <<1000000, 980785, 923879, 831469, 707106, 555570, 382683, 195090, 0, -195090, -382683,
       -555570, -707106, -831469, -923879, -980785, -1000000, -980785, -923879, -831469,
       -707106, -555570, -382683, -195090, 0, 195090, 382683, 555570, 707106, 831469, 923879,
       980785>>,
     <<1000000, 981928, 928367, 841253, 723734, 580056, 415415, 235758, 47581, -142314, -327067,
       -499999, -654860, -786053, -888835, -959492, -995471, -995471, -959492, -888835, -786053,
       -654860, -500000, -327067, -142314, 47581, 235758, 415415, 580056, 723734, 841253,
       928367, 981928>>,
     <<1000000, 982973, 932472, 850217, 739008, 602634, 445738, 273662, 92268, -92268, -273662,
       -445738, -602634, -739008, -850217, -932472, -982973, -1000000, -982973, -932472,
       -850217, -739008, -602634, -445738, -273662, -92268, 92268, 273662, 445738, 602634,
       739008, 850217, 932472, 982973>>,
     <<1000000, 983929, 936234, 858448, 753071, 623489, 473868, 309016, 134233, -44864, -222520,
       -393025, -550896, -691062, -809016, -900968, -963962, -995974, -995974, -963962, -900968,
       -809016, -691062, -550896, -393025, -222520, -44864, 134233, 309016, 473868, 623489,
       753071, 858448, 936234, 983929>>,
     <<1000000, 984807, 939692, 866025, 766044, 642787, 500000, 342020, 173648, 0, -173648,
       -342020, -499999, -642787, -766044, -866025, -939692, -984807, -1000000, -984807,
       -939692, -866025, -766044, -642787, -500000, -342020, -173648, 0, 173648, 342020, 499999,
       642787, 766044, 866025, 939692, 984807>>,
     <<1000000, 985615, 942877, 873014, 778035, 660674, 524307, 372856, 210679, 42441, -127017,
       -292822, -450203, -594633, -721956, -828509, -911228, -967732, -996397, -996397, -967732,
       -911228, -828509, -721956, -594633, -450203, -292822, -127017, 42441, 210679, 372856,
       524307, 660674, 778035, 873014, 942877, 985615>>,
     <<1000000, 986361, 945817, 879473, 789140, 677281, 546948, 401695, 245485, 82579, -82579,
       -245485, -401695, -546948, -677281, -789140, -879473, -945817, -986361, -1000000,
       -986361, -945817, -879473, -789140, -677281, -546948, -401695, -245485, -82579, 82579,
       245485, 401695, 546948, 677281, 789140, 879473, 945817, 986361>>,
     <<1000000, 987050, 948536, 885456, 799442, 692724, 568064, 428692, 278217, 120536, -40265,
       -200025, -354604, -500000, -632445, -748510, -845190, -919979, -970941, -996757, -996757,
       -970941, -919979, -845190, -748510, -632445, -499999, -354604, -200025, -40265, 120536,
       278217, 428692, 568064, 692724, 799442, 885456, 948536, 987050>>,
     <<1000000, 987688, 951056, 891006, 809016, 707106, 587785, 453990, 309016, 156434, 0,
       -156434, -309016, -453990, -587785, -707106, -809016, -891006, -951056, -987688,
       -1000000, -987688, -951056, -891006, -809016, -707106, -587785, -453990, -309016,
       -156434, 0, 156434, 309016, 453990, 587785, 707106, 809016, 891006, 951056, 987688>>,
     <<1000000, 988280, 953396, 896165, 817929, 720521, 606225, 477719, 338016, 190391, 38302,
       -114683, -264981, -409068, -543567, -665325, -771489, -859569, -927502, -973695, -997065,
       -997065, -973695, -927502, -859569, -771489, -665325, -543567, -409068, -264981, -114683,
       38302, 190391, 338016, 477719, 606225, 720521, 817929, 896165, 953396, 988280>>,
     <<1000000, 988830, 955572, 900968, 826238, 733051, 623489, 500000, 365341, 222520, 74730,
       -74730, -222520, -365341, -499999, -623489, -733051, -826238, -900968, -955572, -988830,
       -1000000, -988830, -955572, -900968, -826238, -733051, -623489, -500000, -365341,
       -222520, -74730, 74730, 222520, 365341, 499999, 623489, 733051, 826238, 900968, 955572,
       988830>>,
     <<1000000, 989343, 957600, 905448, 833997, 744772, 639673, 520940, 391104, 252933, 109371,
       -36522, -181636, -322880, -457242, -581858, -694074, -791496, -872049, -934016, -976075,
       -997332, -997332, -976075, -934016, -872049, -791496, -694074, -581858, -457242, -322880,
       -181636, -36522, 109371, 252933, 391104, 520940, 639673, 744772, 833997, 905448, 957600,
       989343>>,
     <<1000000, 989821, 959492, 909631, 841253, 755749, 654860, 540640, 415415, 281732, 142314,
       0, -142314, -281732, -415415, -540640, -654860, -755749, -841253, -909631, -959492,
       -989821, -1000000, -989821, -959492, -909631, -841253, -755749, -654860, -540640,
       -415415, -281732, -142314, 0, 142314, 281732, 415415, 540640, 654860, 755749, 841253,
       909631, 959492, 989821>>,
     <<1000000, 990268, 961261, 913545, 848048, 766044, 669130, 559192, 438371, 309016, 173648,
       34899, -104528, -241921, -374606, -499999, -615661, -719339, -809016, -882947, -939692,
       -978147, -997564, -997564, -978147, -939692, -882947, -809016, -719339, -615661, -500000,
       -374606, -241921, -104528, 34899, 173648, 309016, 438371, 559192, 669130, 766044, 848048,
       913545, 961261, 990268>>,
     <<1000000, 990685, 962917, 917211, 854419, 775711, 682553, 576680, 460065, 334879, 203456,
       68242, -68242, -203456, -334879, -460065, -576680, -682553, -775711, -854419, -917211,
       -962917, -990685, -1000000, -990685, -962917, -917211, -854419, -775711, -682553,
       -576680, -460065, -334879, -203456, -68242, 68242, 203456, 334879, 460065, 576680,
       682553, 775711, 854419, 917211, 962917, 990685>>,
     <<1000000, 991077, 964469, 920649, 860401, 784799, 695192, 593179, 480581, 359407, 231820,
       100095, -33414, -166329, -296275, -420934, -538082, -645627, -741652, -824441, -892518,
       -944669, -979961, -997766, -997766, -979961, -944669, -892518, -824441, -741652, -645627,
       -538082, -420934, -296275, -166329, -33414, 100095, 231820, 359407, 480581, 593179,
       695192, 784799, 860401, 920649, 964469, 991077>>,
     <<1000000, 991444, 965925, 923879, 866025, 793353, 707106, 608761, 500000, 382683, 258819,
       130526, 0, -130526, -258819, -382683, -499999, -608761, -707106, -793353, -866025,
       -923879, -965925, -991444, -1000000, -991444, -965925, -923879, -866025, -793353,
       -707106, -608761, -500000, -382683, -258819, -130526, 0, 130526, 258819, 382683, 500000,
       608761, 707106, 793353, 866025, 923879, 965925, 991444>>,
     <<1000000, 991790, 967294, 926916, 871318, 801413, 718349, 623489, 518392, 404783, 284527,
       159599, 32051, -96023, -222520, -345365, -462538, -572116, -672300, -761445, -838088,
       -900968, -949055, -981559, -997945, -997945, -981559, -949055, -900968, -838088, -761445,
       -672300, -572116, -462538, -345365, -222520, -96023, 32051, 159599, 284527, 404783,
       518392, 623489, 718349, 801413, 871318, 926916, 967294, 991790>>,
     <<1000000, 992114, 968583, 929776, 876306, 809016, 728968, 637423, 535826, 425779, 309016,
       187381, 62790, -62790, -187381, -309016, -425779, -535826, -637423, -728968, -809016,
       -876306, -929776, -968583, -992114, -1000000, -992114, -968583, -929776, -876306,
       -809016, -728968, -637423, -535826, -425779, -309016, -187381, -62790, 62790, 187381,
       309016, 425779, 535826, 637423, 728968, 809016, 876306, 929776, 968583, 992114>>,
     <<1000000, 992420, 969796, 932472, 881012, 816196, 739008, 650618, 552364, 445738, 332354,
       213933, 92268, -30795, -153391, -273662, -389785, -500000, -602634, -696133, -779080,
       -850217, -908465, -952942, -982973, -998103, -998103, -982973, -952942, -908465, -850217,
       -779080, -696133, -602634, -499999, -389785, -273662, -153391, -30795, 92268, 213933,
       332354, 445738, 552364, 650618, 739008, 816196, 881012, 932472, 969796, 992420>>,
     <<1000000, 992708, 970941, 935016, 885456, 822983, 748510, 663122, 568064, 464723, 354604,
       239315, 120536, 0, -120536, -239315, -354604, -464723, -568064, -663122, -748510,
       -822983, -885456, -935016, -970941, -992708, -1000000, -992708, -970941, -935016,
       -885456, -822983, -748510, -663122, -568064, -464723, -354604, -239315, -120536, 0,
       120536, 239315, 354604, 464723, 568064, 663122, 748510, 822983, 885456, 935016, 970941,
       992708>>,
     <<1000000, 992981, 972022, 937419, 889657, 829405, 757511, 674983, 582979, 482792, 375827,
       263587, 147646, 29633, -88795, -205978, -320269, -430065, -533823, -630087, -717507,
       -794854, -861043, -915145, -956400, -984230, -998243, -998243, -984230, -956400, -915145,
       -861043, -794854, -717507, -630087, -533823, -430065, -320269, -205978, -88795, 29633,
       147646, 263587, 375827, 482792, 582979, 674983, 757511, 829405, 889657, 937419, 972022,
       992981>>,
     <<1000000, 993238, 973044, 939692, 893632, 835487, 766044, 686241, 597158, 500000, 396079,
       286803, 173648, 58144, -58144, -173648, -286803, -396079, -499999, -597158, -686241,
       -766044, -835487, -893632, -939692, -973044, -993238, -1000000, -993238, -973044,
       -939692, -893632, -835487, -766044, -686241, -597158, -500000, -396079, -286803, -173648,
       -58144, 58144, 173648, 286803, 396079, 500000, 597158, 686241, 766044, 835487, 893632,
       939692, 973044, 993238>>,
     <<1000000, 993481, 974011, 941844, 897398, 841253, 774141, 696937, 610647, 516397, 415415,
       309016, 198590, 85575, -28556, -142314, -254218, -362807, -466667, -564443, -654860,
       -736741, -809016, -870746, -921123, -959492, -985353, -998369, -998369, -985353, -959492,
       -921123, -870746, -809016, -736741, -654860, -564443, -466667, -362807, -254218, -142314,
       -28556, 85575, 198590, 309016, 415415, 516397, 610647, 696937, 774141, 841253, 897398,
       941844, 974011, 993481>>,
     <<1000000, 993712, 974927, 943883, 900968, 846724, 781831, 707106, 623489, 532032, 433883,
       330279, 222520, 111964, 0, -111964, -222520, -330279, -433883, -532032, -623489, -707106,
       -781831, -846724, -900968, -943883, -974927, -993712, -1000000, -993712, -974927,
       -943883, -900968, -846724, -781831, -707106, -623489, -532032, -433883, -330279, -222520,
       -111964, 0, 111964, 222520, 330279, 433883, 532032, 623489, 707106, 781831, 846724,
       900968, 943883, 974927, 993712>>,
     <<1000000, 993930, 975796, 945817, 904357, 851919, 789140, 716782, 635723, 546948, 451533,
       350637, 245485, 137353, 27554, -82579, -191710, -298514, -401695, -499999, -592235,
       -677281, -754106, -821777, -879473, -926494, -962268, -986361, -998481, -998481, -986361,
       -962268, -926494, -879473, -821777, -754106, -677281, -592235, -500000, -401695, -298514,
       -191710, -82579, 27554, 137353, 245485, 350637, 451533, 546948, 635723, 716782, 789140,
       851919, 904357, 945817, 975796, 993930>>,
     <<1000000, 994137, 976620, 947653, 907575, 856857, 796093, 725995, 647386, 561187, 468408,
       370138, 267528, 161781, 54138, -54138, -161781, -267528, -370138, -468408, -561187,
       -647386, -725995, -796093, -856857, -907575, -947653, -976620, -994137, -1000000,
       -994137, -976620, -947653, -907575, -856857, -796093, -725995, -647386, -561187, -468408,
       -370138, -267528, -161781, -54138, 54138, 161781, 267528, 370138, 468408, 561187, 647386,
       725995, 796093, 856857, 907575, 947653, 976620, 994137>>,
     <<1000000, 994334, 977403, 949397, 910634, 861554, 802711, 734774, 658511, 574787, 484550,
       388824, 288691, 185288, 79786, -26620, -132725, -237326, -339238, -437307, -530420,
       -617524, -697631, -769833, -833313, -887352, -931336, -964767, -987268, -998582, -998582,
       -987268, -964767, -931336, -887352, -833313, -769833, -697631, -617524, -530420, -437307,
       -339238, -237326, -132725, -26620, 79786, 185288, 288691, 388824, 484550, 574787, 658511,
       734774, 802711, 861554, 910634, 949397, 977403, 994334>>,
     <<1000000, 994521, 978147, 951056, 913545, 866025, 809016, 743144, 669130, 587785, 500000,
       406736, 309016, 207911, 104528, 0, -104528, -207911, -309016, -406736, -499999, -587785,
       -669130, -743144, -809016, -866025, -913545, -951056, -978147, -994521, -1000000,
       -994521, -978147, -951056, -913545, -866025, -809016, -743144, -669130, -587785, -500000,
       -406736, -309016, -207911, -104528, 0, 104528, 207911, 309016, 406736, 500000, 587785,
       669130, 743144, 809016, 866025, 913545, 951056, 978147, 994521>>,
     <<1000000, 994699, 978855, 952635, 916316, 870285, 815028, 751131, 679273, 600214, 514792,
       423914, 328542, 229687, 128398, 25747, -77175, -179280, -279485, -376727, -469976,
       -558243, -640593, -716152, -784119, -843775, -894487, -935716, -967027, -988087, -998674,
       -998674, -988087, -967027, -935716, -894487, -843775, -784119, -716152, -640593, -558243,
       -469976, -376727, -279485, -179280, -77175, 25747, 128398, 229687, 328542, 423914,
       514792, 600214, 679273, 751131, 815028, 870285, 916316, 952635, 978855, 994699>>,
     <<1000000, 994869, 979529, 954139, 918957, 874346, 820763, 758758, 688966, 612105, 528964,
       440394, 347305, 250652, 151427, 50649, -50649, -151427, -250652, -347305, -440394,
       -528964, -612105, -688966, -758758, -820763, -874346, -918957, -954139, -979529, -994869,
       -1000000, -994869, -979529, -954139, -918957, -874346, -820763, -758758, -688966,
       -612105, -528964, -440394, -347305, -250652, -151427, -50649, 50649, 151427, 250652,
       347305, 440394, 528964, 612105, 688966, 758758, 820763, 874346, 918957, 954139, 979529,
       994869>>,
     <<1000000, 995030, 980172, 955572, 921476, 878221, 826238, 766044, 698236, 623489, 542546,
       456210, 365341, 270840, 173648, 74730, -24930, -124343, -222520, -318486, -411287,
       -500000, -583743, -661685, -733051, -797132, -853290, -900968, -939692, -969077, -988830,
       -998756, -998756, -988830, -969077, -939692, -900968, -853290, -797132, -733051, -661685,
       -583743, -499999, -411287, -318486, -222520, -124343, -24930, 74730, 173648, 270840,
       365341, 456210, 542546, 623489, 698236, 766044, 826238, 878221, 921476, 955572, 980172,
       995030>>,
     <<1000000, 995184, 980785, 956940, 923879, 881921, 831469, 773010, 707106, 634393, 555570,
       471396, 382683, 290284, 195090, 98017, 0, -98017, -195090, -290284, -382683, -471396,
       -555570, -634393, -707106, -773010, -831469, -881921, -923879, -956940, -980785, -995184,
       -1000000, -995184, -980785, -956940, -923879, -881921, -831469, -773010, -707106,
       -634393, -555570, -471396, -382683, -290284, -195090, -98017, 0, 98017, 195090, 290284,
       382683, 471396, 555570, 634393, 707106, 773010, 831469, 881921, 923879, 956940, 980785,
       995184>>,
     <<1000000, 995331, 981370, 958245, 926174, 885456, 836470, 779674, 715598, 644842, 568064,
       485983, 399364, 309016, 215784, 120536, 24163, -72434, -168357, -262707, -354604,
       -443191, -527640, -607162, -681015, -748510, -809016, -861969, -906874, -943311, -970941,
       -989506, -998832, -998832, -989506, -970941, -943311, -906874, -861969, -809016, -748510,
       -681015, -607162, -527640, -443191, -354604, -262707, -168357, -72434, 24163, 120536,
       215784, 309016, 399364, 485983, 568064, 644842, 715598, 779674, 836470, 885456, 926174,
       958245, 981370, 995331>>,
     <<1000000, 995471, 981928, 959492, 928367, 888835, 841253, 786053, 723734, 654860, 580056,
       500000, 415415, 327067, 235758, 142314, 47581, -47581, -142314, -235758, -327067,
       -415415, -499999, -580056, -654860, -723734, -786053, -841253, -888835, -928367, -959492,
       -981928, -995471, -1000000, -995471, -981928, -959492, -928367, -888835, -841253,
       -786053, -723734, -654860, -580056, -500000, -415415, -327067, -235758, -142314, -47581,
       47581, 142314, 235758, 327067, 415415, 500000, 580056, 654860, 723734, 786053, 841253,
       888835, 928367, 959492, 981928, 995471>>,
     <<1000000, 995605, 982462, 960685, 930465, 892068, 845832, 792162, 731531, 664471, 591572,
       513474, 430863, 344466, 255042, 163377, 70276, -23442, -116955, -209440, -300084,
       -388091, -472688, -553131, -628712, -698769, -762685, -819898, -869906, -912269, -946615,
       -972642, -990122, -998900, -998900, -990122, -972642, -946615, -912269, -869906, -819898,
       -762685, -698769, -628712, -553131, -472688, -388091, -300084, -209440, -116955, -23442,
       70276, 163377, 255042, 344466, 430863, 513474, 591572, 664471, 731531, 792162, 845832,
       892068, 930465, 960685, 982462, 995605>>,
     <<1000000, 995734, 982973, 961825, 932472, 895163, 850217, 798017, 739008, 673695, 602634,
       526432, 445738, 361241, 273662, 183749, 92268, 0, -92268, -183749, -273662, -361241,
       -445738, -526432, -602634, -673695, -739008, -798017, -850217, -895163, -932472, -961825,
       -982973, -995734, -1000000, -995734, -982973, -961825, -932472, -895163, -850217,
       -798017, -739008, -673695, -602634, -526432, -445738, -361241, -273662, -183749, -92268,
       0, 92268, 183749, 273662, 361241, 445738, 526432, 602634, 673695, 739008, 798017, 850217,
       895163, 932472, 961825, 982973, 995734>>,
     <<1000000, 995856, 983461, 962917, 934393, 898127, 854419, 803631, 746183, 682553, 613266,
       538898, 460065, 377419, 291645, 203456, 113580, 22763, -68242, -158682, -247807, -334879,
       -419176, -499999, -576680, -648582, -715109, -775711, -829885, -877182, -917211, -949639,
       -974199, -990685, -998963, -998963, -990685, -974199, -949639, -917211, -877182, -829885,
       -775711, -715109, -648582, -576680, -500000, -419176, -334879, -247807, -158682, -68242,
       22763, 113580, 203456, 291645, 377419, 460065, 538898, 613266, 682553, 746183, 803631,
       854419, 898127, 934393, 962917, 983461, 995856>>,
     <<1000000, 995974, 983929, 963962, 936234, 900968, 858448, 809016, 753071, 691062, 623489,
       550896, 473868, 393025, 309016, 222520, 134233, 44864, -44864, -134233, -222520, -309016,
       -393025, -473868, -550896, -623489, -691062, -753071, -809016, -858448, -900968, -936234,
       -963962, -983929, -995974, -1000000, -995974, -983929, -963962, -936234, -900968,
       -858448, -809016, -753071, -691062, -623489, -550896, -473868, -393025, -309016, -222520,
       -134233, -44864, 44864, 134233, 222520, 309016, 393025, 473868, 550896, 623489, 691062,
       753071, 809016, 858448, 900968, 936234, 963962, 983929, 995974>>,
     <<1000000, 996086, 984377, 964964, 937999, 903693, 862314, 814186, 759687, 699241, 633323,
       562449, 487172, 408083, 325800, 240967, 154248, 66322, -22122, -110393, -197801, -283661,
       -367301, -448066, -525325, -598472, -666935, -730179, -787707, -839071, -883869, -921748,
       -952414, -975626, -991202, -999021, -999021, -991202, -975626, -952414, -921748, -883869,
       -839071, -787707, -730179, -666935, -598472, -525325, -448066, -367301, -283661, -197801,
       -110393, -22122, 66322, 154248, 240967, 325800, 408083, 487172, 562449, 633323, 699241,
       759687, 814186, 862314, 903693, 937999, 964964, 984377, 996086>>,
     <<1000000, 996194, 984807, 965925, 939692, 906307, 866025, 819152, 766044, 707106, 642787,
       573576, 500000, 422618, 342020, 258819, 173648, 87155, 0, -87155, -173648, -258819,
       -342020, -422618, -499999, -573576, -642787, -707106, -766044, -819152, -866025, -906307,
       -939692, -965925, -984807, -996194, -1000000, -996194, -984807, -965925, -939692,
       -906307, -866025, -819152, -766044, -707106, -642787, -573576, -500000, -422618, -342020,
       -258819, -173648, -87155, 0, 87155, 173648, 258819, 342020, 422618, 499999, 573576,
       642787, 707106, 766044, 819152, 866025, 906307, 939692, 965925, 984807, 996194>>
  >>

\* SinTab[n][i+1]: math.sin(2 * math.pi * i / n), same representation.
SinTab ==
  <<
     <<0>>,
     <<0, 0>>,
     <<0, 866025, -866025>>,
     <<0, 1000000, 0, -1000000>>,
     <<0, 951056, 587785, -587785, -951056>>,
     <<0, 866025, 866025, 0, -866025, -866025>>,
     <<0, 781831, 974927, 433883, -433883, -974927, -781831>>,
     <<0, 707106, 1000000, 707106, 0, -707106, -1000000, -707106>>,
     <<0, 642787, 984807, 866025, 342020, -342020, -866025, -984807, -642787>>,
     <<0, 587785, 951056, 951056, 587785, 0, -587785, -951056, -951056, -587785>>,
     <<0, 540640, 909631, 989821, 755749, 281732, -281732, -755749, -989821, -909631, -540640>>,
     <<0, 499999, 866025, 1000000, 866025, 499999, 0, -499999, -866025, -1000000, -866025,
       -500000>>,
     <<0, 464723, 822983, 992708, 935016, 663122, 239315, -239315, -663122, -935016, -992708,
       -822983, -464723>>,
     <<0, 433883, 781831, 974927, 974927, 781831, 433883, 0, -433883, -781831, -974927, -974927,
       -781831, -433883>>,
     <<0, 406736, 743144, 951056, 994521, 866025, 587785, 207911, -207911, -587785, -866025,
       -994521, -951056, -743144, -406736>>,
     <<0, 382683, 707106, 923879, 1000000, 923879, 707106, 382683, 0, -382683, -707106, -923879,
       -1000000, -923879, -707106, -382683>>,
     <<0, 361241, 673695, 895163, 995734, 961825, 798017, 526432, 183749, -183749, -526432,
       -798017, -961825, -995734, -895163, -673695, -361241>>,
     <<0, 342020, 642787, 866025, 984807, 984807, 866025, 642787, 342020, 0, -342020, -642787,
       -866025, -984807, -984807, -866025, -642787, -342020>>,
     <<0, 324699, 614212, 837166, 969400, 996584, 915773, 735723, 475947, 164594, -164594,
       -475947, -735723, -915773, -996584, -969400, -837166, -614212, -324699>>,
     <<0, 309016, 587785, 809016, 951056, 1000000, 951056, 809016, 587785, 309016, 0, -309016,
       -587785, -809016, -951056, -1000000, -951056, -809016, -587785, -309016>>,
     <<0, 294755, 563320, 781831, 930873, 997203, 974927, 866025, 680172, 433883, 149042,
       -149042, -433883, -680172, -866025, -974927, -997203, -930873, -781831, -563320,
       -294755>>,
     <<0, 281732, 540640, 755749, 909631, 989821, 989821, 909631, 755749, 540640, 281732, 0,
       -281732, -540640, -755749, -909631, -989821, -989821, -909631, -755749, -540640,
       -281732>>,
     <<0, 269796, 519583, 730835, 887885, 979084, 997668, 942260, 816969, 631087, 398401,
       136166, -136166, -398401, -631087, -816969, -942260, -997668, -979084, -887885, -730835,
       -519583, -269796>>,
     <<0, 258819, 499999, 707106, 866025, 965925, 1000000, 965925, 866025, 707106, 499999,
       258819, 0, -258819, -499999, -707106, -866025, -965925, -1000000, -965925, -866025,
       -707106, -500000, -258819>>,
     <<0, 248689, 481753, 684547, 844327, 951056, 998026, 982287, 904827, 770513, 587785,
       368124, 125333, -125333, -368124, -587785, -770513, -904827, -982287, -998026, -951056,
       -844327, -684547, -481753, -248689>>,
     <<0, 239315, 464723, 663122, 822983, 935016, 992708, 992708, 935016, 822983, 663122,
       464723, 239315, 0, -239315, -464723, -663122, -822983, -935016, -992708, -992708,
       -935016, -822983, -663122, -464723, -239315>>,
     <<0, 230615, 448799, 642787, 802123, 918216, 984807, 998308, 957989, 866025, 727373,
       549508, 342020, 116092, -116092, -342020, -549508, -727373, -866025, -957989, -998308,
       -984807, -918216, -802123, -642787, -448799, -230615>>,
     <<0, 222520, 433883, 623489, 781831, 900968, 974927, 1000000, 974927, 900968, 781831,
       623489, 433883, 222520, 0, -222520, -433883, -623489, -781831, -900968, -974927,
       -1000000, -974927, -900968, -781831, -623489, -433883, -222520>>,
     <<0, 214970, 419889, 605174, 762162, 883512, 963549, 998533, 986826, 928976, 827688,
       687699, 515553, 319301, 108119, -108119, -319301, -515553, -687699, -827688, -928976,
       -986826, -998533, -963549, -883512, -762162, -605174, -419889, -214970>>,
     <<0, 207911, 406736, 587785, 743144, 866025, 951056, 994521, 994521, 951056, 866025,
       743144, 587785, 406736, 207911, 0, -207911, -406736, -587785, -743144, -866025, -951056,
       -994521, -994521, -951056, -866025, -743144, -587785, -406736, -207911>>,
     <<0, 201298, 394355, 571268, 724792, 848644, 937752, 988468, 998716, 968077, 897804,
       790775, 651372, 485301, 299363, 101168, -101168, -299363, -485301, -651372, -790775,
       -897804, -968077, -998716, -988468, -937752, -848644, -724792, -571268, -394355,
       -201298>>,
     <<0, 195090, 382683, 555570, 707106, 831469, 923879, 980785, 1000000, 980785, 923879,
       831469, 707106, 555570, 382683, 195090, 0, -195090, -382683, -555570, -707106, -831469,
       -923879, -980785, -1000000, -980785, -923879, -831469, -707106, -555570, -382683,
       -195090>>,
     <<0, 189251, 371662, 540640, 690079, 814575, 909631, 971811, 998867, 989821, 945000,
       866025, 755749, 618158, 458226, 281732, 95056, -95056, -281732, -458226, -618158,
       -755749, -866025, -945000, -989821, -998867, -971811, -909631, -814575, -690079, -540640,
       -371662, -189251>>,
     <<0, 183749, 361241, 526432, 673695, 798017, 895163, 961825, 995734, 995734, 961825,
       895163, 798017, 673695, 526432, 361241, 183749, 0, -183749, -361241, -526432, -673695,
       -798017, -895163, -961825, -995734, -995734, -961825, -895163, -798017, -673695, -526432,
       -361241, -183749>>,
     <<0, 178556, 351374, 512899, 657938, 781831, 880595, 951056, 990949, 998993, 974927,
       919527, 834573, 722794, 587785, 433883, 266036, 89639, -89639, -266036, -433883, -587785,
       -722794, -834573, -919527, -974927, -998993, -990949, -951056, -880595, -781831, -657938,
       -512899, -351374, -178556>>,
     <<0, 173648, 342020, 499999, 642787, 766044, 866025, 939692, 984807, 1000000, 984807,
       939692, 866025, 766044, 642787, 500000, 342020, 173648, 0, -173648, -342020, -500000,
       -642787, -766044, -866025, -939692, -984807, -1000000, -984807, -939692, -866025,
       -766044, -642787, -499999, -342020, -173648>>,
     <<0, 169000, 333139, 487694, 628219, 750672, 851529, 927889, 977555, 999098, 991900,
       956166, 892925, 803997, 691938, 559974, 411901, 251978, 84805, -84805, -251978, -411901,
       -559974, -691938, -803997, -892925, -956166, -991900, -999098, -977555, -927889, -851529,
       -750672, -628219, -487694, -333139, -169000>>,
     <<0, 164594, 324699, 475947, 614212, 735723, 837166, 915773, 969400, 996584, 996584,
       969400, 915773, 837166, 735723, 614212, 475947, 324699, 164594, 0, -164594, -324699,
       -475947, -614212, -735723, -837166, -915773, -969400, -996584, -996584, -969400, -915773,
       -837166, -735723, -614212, -475947, -324699, -164594>>,
     <<0, 160411, 316667, 464723, 600742, 721202, 822983, 903450, 960518, 992708, 999188,
       979790, 935016, 866025, 774604, 663122, 534465, 391966, 239315, 80466, -80466, -239315,
       -391966, -534465, -663122, -774604, -866025, -935016, -979790, -999188, -992708, -960518,
       -903450, -822983, -721202, -600742, -464723, -316667, -160411>>,
     <<0, 156434, 309016, 453990, 587785, 707106, 809016, 891006, 951056, 987688, 1000000,
       987688, 951056, 891006, 809016, 707106, 587785, 453990, 309016, 156434, 0, -156434,
       -309016, -453990, -587785, -707106, -809016, -891006, -951056, -987688, -1000000,
       -987688, -951056, -891006, -809016, -707106, -587785, -453990, -309016, -156434>>,
     <<0, 152649, 301720, 443719, 575318, 693432, 795292, 878512, 941140, 981708, 999266,
       993402, 964253, 912503, 839365, 746553, 636242, 511018, 373817, 227853, 76549, -76549,
       -227853, -373817, -511018, -636242, -746553, -839365, -912503, -964253, -993402, -999266,
       -981708, -941140, -878512, -795292, -693432, -575318, -443719, -301720, -152649>>,
     <<0, 149042, 294755, 433883, 563320, 680172, 781831, 866025, 930873, 974927, 997203,
       997203, 974927, 930873, 866025, 781831, 680172, 563320, 433883, 294755, 149042, 0,
       -149042, -294755, -433883, -563320, -680172, -781831, -866025, -930873, -974927, -997203,
       -997203, -974927, -930873, -866025, -781831, -680172, -563320, -433883, -294755,
       -149042>>,
     <<0, 145601, 288099, 424456, 551767, 667318, 768647, 853593, 920346, 967483, 994000,
       999332, 983365, 946439, 889342, 813289, 719903, 611173, 489417, 357230, 217430, 72995,
       -72995, -217430, -357230, -489417, -611173, -719903, -813289, -889342, -946439, -983365,
       -999332, -994000, -967483, -920346, -853593, -768647, -667318, -551767, -424456, -288099,
       -145601>>,
     <<0, 142314, 281732, 415415, 540640, 654860, 755749, 841253, 909631, 959492, 989821,
       1000000, 989821, 959492, 909631, 841253, 755749, 654860, 540640, 415415, 281732, 142314,
       0, -142314, -281732, -415415, -540640, -654860, -755749, -841253, -909631, -959492,
       -989821, -1000000, -989821, -959492, -909631, -841253, -755749, -654860, -540640,
       -415415, -281732, -142314>>,
     <<0, 139173, 275637, 406736, 529919, 642787, 743144, 829037, 898794, 951056, 984807,
       999390, 994521, 970295, 927183, 866025, 788010, 694658, 587785, 469471, 342020, 207911,
       69756, -69756, -207911, -342020, -469471, -587785, -694658, -788010, -866025, -927183,
       -970295, -994521, -999390, -984807, -951056, -898794, -829037, -743144, -642787, -529919,
       -406736, -275637, -139173>>,
     <<0, 136166, 269796, 398401, 519583, 631087, 730835, 816969, 887885, 942260, 979084,
       997668, 997668, 979084, 942260, 887885, 816969, 730835, 631087, 519583, 398401, 269796,
       136166, 0, -136166, -269796, -398401, -519583, -631087, -730835, -816969, -887885,
       -942260, -979084, -997668, -997668, -979084, -942260, -887885, -816969, -730835, -631087,
       -519583, -398401, -269796, -136166>>,
     <<0, 133286, 264195, 390389, 509616, 619749, 718823, 805070, 876949, 933180, 972758,
       994977, 999441, 986070, 955102, 907090, 842892, 763652, 670784, 565947, 451010, 328024,
       199185, 66792, -66792, -199185, -328024, -451010, -565947, -670784, -763652, -842892,
       -907090, -955102, -986070, -999441, -994977, -972758, -933180, -876949, -805070, -718823,
       -619749, -509616, -390389, -264195, -133286>>,
     <<0, 130526, 258819, 382683, 499999, 608761, 707106, 793353, 866025, 923879, 965925,
       991444, 1000000, 991444, 965925, 923879, 866025, 793353, 707106, 608761, 499999, 382683,
       258819, 130526, 0, -130526, -258819, -382683, -499999, -608761, -707106, -793353,
       -866025, -923879, -965925, -991444, -1000000, -991444, -965925, -923879, -866025,
       -793353, -707106, -608761, -500000, -382683, -258819, -130526>>,
     <<0, 127877, 253654, 375267, 490717, 598110, 695682, 781831, 855142, 914412, 958667,
       987181, 999486, 995379, 974927, 938468, 886599, 820172, 740277, 648228, 545534, 433883,
       315108, 191158, 64070, -64070, -191158, -315108, -433883, -545534, -648228, -740277,
       -820172, -886599, -938468, -974927, -995379, -999486, -987181, -958667, -914412, -855142,
       -781831, -695682, -598110, -490717, -375267, -253654, -127877>>,
     <<0, 125333, 248689, 368124, 481753, 587785, 684547, 770513, 844327, 904827, 951056,
       982287, 998026, 998026, 982287, 951056, 904827, 844327, 770513, 684547, 587785, 481753,
       368124, 248689, 125333, 0, -125333, -248689, -368124, -481753, -587785, -684547, -770513,
       -844327, -904827, -951056, -982287, -998026, -998026, -982287, -951056, -904827, -844327,
       -770513, -684547, -587785, -481753, -368124, -248689, -125333>>,
     <<0, 122888, 243913, 361241, 473093, 577773, 673695, 759404, 833602, 895163, 943154,
       976848, 995734, 999525, 988165, 961825, 920905, 866025, 798017, 717911, 626923, 526432,
       417960, 303152, 183749, 61560, -61560, -183749, -303152, -417960, -526432, -626923,
       -717911, -798017, -866025, -920905, -961825, -988165, -999525, -995734, -976848, -943154,
       -895163, -833602, -759404, -673695, -577773, -473093, -361241, -243913, -122888>>,
     <<0, 120536, 239315, 354604, 464723, 568064, 663122, 748510, 822983, 885456, 935016,
       970941, 992708, 1000000, 992708, 970941, 935016, 885456, 822983, 748510, 663122, 568064,
       464723, 354604, 239315, 120536, 0, -120536, -239315, -354604, -464723, -568064, -663122,
       -748510, -822983, -885456, -935016, -970941, -992708, -1000000, -992708, -970941,
       -935016, -885456, -822983, -748510, -663122, -568064, -464723, -354604, -239315,
       -120536>>,
     <<0, 118273, 234886, 348201, 456629, 558646, 652822, 737833, 812486, 875734, 926689,
       964635, 989040, 999560, 996049, 978556, 947326, 902797, 845596, 776523, 696551, 606800,
       508531, 403123, 292056, 176890, 59240, -59240, -176890, -292056, -403123, -508531,
       -606800, -696551, -776523, -845596, -902797, -947326, -978556, -996049, -999560, -989040,
       -964635, -926689, -875734, -812486, -737833, -652822, -558646, -456629, -348201, -234886,
       -118273>>,
     <<0, 116092, 230615, 342020, 448799, 549508, 642787, 727373, 802123, 866025, 918216,
       957989, 984807, 998308, 998308, 984807, 957989, 918216, 866025, 802123, 727373, 642787,
       549508, 448799, 342020, 230615, 116092, 0, -116092, -230615, -342020, -448799, -549508,
       -642787, -727373, -802123, -866025, -918216, -957989, -984807, -998308, -998308, -984807,
       -957989, -918216, -866025, -802123, -727373, -642787, -549508, -448799, -342020, -230615,
       -116092>>,
     <<0, 113991, 226496, 336049, 441221, 540640, 633012, 717131, 791902, 856349, 909631,
       951056, 980082, 996331, 999592, 989821, 967146, 931864, 884432, 825471, 755749, 676174,
       587785, 491732, 389270, 281732, 170522, 57088, -57088, -170522, -281732, -389270,
       -491732, -587785, -676174, -755749, -825471, -884432, -931864, -967146, -989821, -999592,
       -996331, -980082, -951056, -909631, -856349, -791902, -717131, -633012, -540640, -441221,
       -336049, -226496, -113991>>,
     <<0, 111964, 222520, 330279, 433883, 532032, 623489, 707106, 781831, 846724, 900968,
       943883, 974927, 993712, 1000000, 993712, 974927, 943883, 900968, 846724, 781831, 707106,
       623489, 532032, 433883, 330279, 222520, 111964, 0, -111964, -222520, -330279, -433883,
       -532032, -623489, -707106, -781831, -846724, -900968, -943883, -974927, -993712,
       -1000000, -993712, -974927, -943883, -900968, -846724, -781831, -707106, -623489,
       -532032, -433883, -330279, -222520, -111964>>,
     <<0, 110008, 218681, 324699, 426776, 523672, 614212, 697296, 771916, 837166, 892254,
       936511, 969400, 990522, 999620, 996584, 981451, 954405, 915773, 866025, 805765, 735723,
       656752, 569808, 475947, 376309, 272103, 164594, 55087, -55087, -164594, -272103, -376309,
       -475947, -569808, -656752, -735723, -805765, -866025, -915773, -954405, -981451, -996584,
       -999620, -990522, -969400, -936511, -892254, -837166, -771916, -697296, -614212, -523672,
       -426776, -324699, -218681, -110008>>,
     <<0, 108119, 214970, 319301, 419889, 515553, 605174, 687699, 762162, 827688, 883512,
       928976, 963549, 986826, 998533, 998533, 986826, 963549, 928976, 883512, 827688, 762162,
       687699, 605174, 515553, 419889, 319301, 214970, 108119, 0, -108119, -214970, -319301,
       -419889, -515553, -605174, -687699, -762162, -827688, -883512, -928976, -963549, -986826,
       -998533, -998533, -986826, -963549, -928976, -883512, -827688, -762162, -687699, -605174,
       -515553, -419889, -319301, -214970, -108119>>,
     <<0, 106293, 211382, 314076, 413212, 507665, 596367, 678311, 752570, 818302, 874763,
       921311, 957422, 982684, 996812, 999645, 991152, 971429, 940700, 899312, 847734, 786551,
       716456, 638244, 552800, 461092, 364160, 263102, 159063, 53222, -53222, -159063, -263102,
       -364160, -461092, -552800, -638244, -716456, -786551, -847734, -899312, -940700, -971429,
       -991152, -999645, -996812, -982684, -957422, -921311, -874763, -818302, -752570, -678311,
       -596367, -507665, -413212, -314076, -211382, -106293>>,
     <<0, 104528, 207911, 309016, 406736, 499999, 587785, 669130, 743144, 809016, 866025,
       913545, 951056, 978147, 994521, 1000000, 994521, 978147, 951056, 913545, 866025, 809016,
       743144, 669130, 587785, 499999, 406736, 309016, 207911, 104528, 0, -104528, -207911,
       -309016, -406736, -499999, -587785, -669130, -743144, -809016, -866025, -913545, -951056,
       -978147, -994521, -1000000, -994521, -978147, -951056, -913545, -866025, -809016,
       -743144, -669130, -587785, -499999, -406736, -309016, -207911, -104528>>,
     <<0, 102820, 204552, 304114, 400453, 492548, 579421, 660152, 733885, 799839, 857314,
       905702, 944489, 973264, 991722, 999668, 997017, 983797, 960149, 926323, 882678, 829677,
       767880, 697944, 620609, 536696, 447093, 352752, 254671, 153890, 51478, -51478, -153890,
       -254671, -352752, -447093, -536696, -620609, -697944, -767880, -829677, -882678, -926323,
       -960149, -983797, -997017, -999668, -991722, -973264, -944489, -905702, -857314, -799839,
       -733885, -660152, -579421, -492548, -400453, -304114, -204552, -102820>>,
     <<0, 101168, 201298, 299363, 394355, 485301, 571268, 651372, 724792, 790775, 848644,
       897804, 937752, 968077, 988468, 998716, 998716, 988468, 968077, 937752, 897804, 848644,
       790775, 724792, 651372, 571268, 485301, 394355, 299363, 201298, 101168, 0, -101168,
       -201298, -299363, -394355, -485301, -571268, -651372, -724792, -790775, -848644, -897804,
       -937752, -968077, -988468, -998716, -998716, -988468, -968077, -937752, -897804, -848644,
       -790775, -724792, -651372, -571268, -485301, -394355, -299363, -201298, -101168>>,
     <<0, 99567, 198146, 294755, 388434, 478253, 563320, 642787, 715866, 781831, 840025, 889871,
       930873, 962624, 984807, 997203, 999689, 992239, 974927, 947927, 911505, 866025, 811938,
       749781, 680172, 603804, 521435, 433883, 342020, 246757, 149042, 49845, -49845, -149042,
       -246757, -342020, -433883, -521435, -603804, -680172, -749781, -811938, -866025, -911505,
       -947927, -974927, -992239, -999689, -997203, -984807, -962624, -930873, -889871, -840025,
       -781831, -715866, -642787, -563320, -478253, -388434, -294755, -198146, -99567>>,
     <<0, 98017, 195090, 290284, 382683, 471396, 555570, 634393, 707106, 773010, 831469, 881921,
       923879, 956940, 980785, 995184, 1000000, 995184, 980785, 956940, 923879, 881921, 831469,
       773010, 707106, 634393, 555570, 471396, 382683, 290284, 195090, 98017, 0, -98017,
       -195090, -290284, -382683, -471396, -555570, -634393, -707106, -773010, -831469, -881921,
       -923879, -956940, -980785, -995184, -1000000, -995184, -980785, -956940, -923879,
       -881921, -831469, -773010, -707106, -634393, -555570, -471396, -382683, -290284, -195090,
       -98017>>,
     <<0, 96513, 192126, 285945, 377094, 464723, 548012, 626185, 698511, 764315, 822983, 873968,
       916792, 951056, 976441, 992708, 999708, 997373, 985726, 964875, 935016, 896426, 849467,
       794577, 732268, 663122, 587785, 506959, 421401, 331907, 239315, 144489, 48313, -48313,
       -144489, -239315, -331907, -421401, -506959, -587785, -663122, -732268, -794577, -849467,
       -896426, -935016, -964875, -985726, -997373, -999708, -992708, -976441, -951056, -916792,
       -873968, -822983, -764315, -698511, -626185, -548012, -464723, -377094, -285945, -192126,
       -96513>>,
     <<0, 95056, 189251, 281732, 371662, 458226, 540640, 618158, 690079, 755749, 814575, 866025,
       909631, 945000, 971811, 989821, 998867, 998867, 989821, 971811, 945000, 909631, 866025,
       814575, 755749, 690079, 618158, 540640, 458226, 371662, 281732, 189251, 95056, 0, -95056,
       -189251, -281732, -371662, -458226, -540640, -618158, -690079, -755749, -814575, -866025,
       -909631, -945000, -971811, -989821, -998867, -998867, -989821, -971811, -945000, -909631,
       -866025, -814575, -755749, -690079, -618158, -540640, -458226, -371662, -281732, -189251,
       -95056>>,
     <<0, 93641, 186460, 277640, 366380, 451900, 533449, 610310, 681807, 747313, 806252, 858105,
       902416, 938798, 966929, 986563, 997527, 999725, 993137, 977821, 953912, 921620, 881229,
       833094, 777637, 715346, 646769, 572509, 493216, 409590, 322364, 232305, 140204, 46872,
       -46872, -140204, -232305, -322364, -409590, -493216, -572509, -646769, -715346, -777637,
       -833094, -881229, -921620, -953912, -977821, -993137, -999725, -997527, -986563, -966929,
       -938798, -902416, -858105, -806252, -747313, -681807, -610310, -533449, -451900, -366380,
       -277640, -186460, -93641>>,
     <<0, 92268, 183749, 273662, 361241, 445738, 526432, 602634, 673695, 739008, 798017, 850217,
       895163, 932472, 961825, 982973, 995734, 1000000, 995734, 982973, 961825, 932472, 895163,
       850217, 798017, 739008, 673695, 602634, 526432, 445738, 361241, 273662, 183749, 92268, 0,
       -92268, -183749, -273662, -361241, -445738, -526432, -602634, -673695, -739008, -798017,
       -850217, -895163, -932472, -961825, -982973, -995734, -1000000, -995734, -982973,
       -961825, -932472, -895163, -850217, -798017, -739008, -673695, -602634, -526432, -445738,
       -361241, -273662, -183749, -92268>>,
     <<0, 90934, 181116, 269796, 356241, 439734, 519583, 595127, 665740, 730835, 789875, 842370,
       887885, 926042, 956526, 979084, 993528, 999740, 997668, 987329, 968809, 942260, 907904,
       866025, 816969, 761144, 699012, 631087, 557934, 480156, 398401, 313343, 225690, 136166,
       45514, -45514, -136166, -225690, -313343, -398401, -480156, -557934, -631087, -699012,
       -761144, -816969, -866025, -907904, -942260, -968809, -987329, -997668, -999740, -993528,
       -979084, -956526, -926042, -887885, -842370, -789875, -730835, -665740, -595127, -519583,
       -439734, -356241, -269796, -181116, -90934>>,
     <<0, 89639, 178556, 266036, 351374, 433883, 512899, 587785, 657938, 722794, 781831, 834573,
       880595, 919527, 951056, 974927, 990949, 998993, 998993, 990949, 974927, 951056, 919527,
       880595, 834573, 781831, 722794, 657938, 587785, 512899, 433883, 351374, 266036, 178556,
       89639, 0, -89639, -178556, -266036, -351374, -433883, -512899, -587785, -657938, -722794,
       -781831, -834573, -880595, -919527, -951056, -974927, -990949, -998993, -998993, -990949,
       -974927, -951056, -919527, -880595, -834573, -781831, -722794, -657938, -587785, -512899,
       -433883, -351374, -266036, -178556, -89639>>,
     <<0, 88380, 176068, 262378, 346635, 428179, 506372, 580602, 650288, 714885, 773886, 826831,
       873305, 912944, 945438, 970533, 988032, 997798, 999755, 993887, 980242, 958924, 930101,
       894000, 850901, 801143, 745115, 683255, 616048, 544020, 467734, 387787, 304805, 219438,
       132353, 44233, -44233, -132353, -219438, -304805, -387787, -467734, -544020, -616048,
       -683255, -745115, -801143, -850901, -894000, -930101, -958924, -980242, -993887, -999755,
       -997798, -988032, -970533, -945438, -912944, -873305, -826831, -773886, -714885, -650288,
       -580602, -506372, -428179, -346635, -262378, -176068, -88380>>,
     <<0, 87155, 173648, 258819, 342020, 422618, 499999, 573576, 642787, 707106, 766044, 819152,
       866025, 906307, 939692, 965925, 984807, 996194, 1000000, 996194, 984807, 965925, 939692,
       906307, 866025, 819152, 766044, 707106, 642787, 573576, 500000, 422618, 342020, 258819,
       173648, 87155, 0, -87155, -173648, -258819, -342020, -422618, -500000, -573576, -642787,
       -707106, -766044, -819152, -866025, -906307, -939692, -965925, -984807, -996194,
       -1000000, -996194, -984807, -965925, -939692, -906307, -866025, -819152, -766044,
       -707106, -642787, -573576, -499999, -422618, -342020, -258819, -173648, -87155>>
  >>

\* CosHalfTab[n][i+1]: math.cos(2 * math.pi * (i + 0.5) / n) (n in 1..20).
CosHalfTab ==
  <<
     <<-1000000>>,
     <<0, 0>>,
     <<500000, -1000000, 500000>>,
     <<707106, -707106, -707106, 707106>>,
     <<809016, -309016, -1000000, -309016, 809016>>,
     <<866025, 0, -866025, -866025, 0, 866025>>,
     <<900968, 222520, -623489, -1000000, -623489, 222520, 900968>>,
     <<923879, 382683, -382683, -923879, -923879, -382683, 382683, 923879>>,
     <<939692, 500000, -173648, -766044, -1000000, -766044, -173648, 499999, 939692>>,
     <<951056, 587785, 0, -587785, -951056, -951056, -587785, 0, 587785, 951056>>,
     <<959492, 654860, 142314, -415415, -841253, -1000000, -841253, -415415, 142314, 654860,
       959492>>,
     <<965925, 707106, 258819, -258819, -707106, -965925, -965925, -707106, -258819, 258819,
       707106, 965925>>,
     <<970941, 748510, 354604, -120536, -568064, -885456, -1000000, -885456, -568064, -120536,
       354604, 748510, 970941>>,
     <<974927, 781831, 433883, 0, -433883, -781831, -974927, -974927, -781831, -433883, 0,
       433883, 781831, 974927>>,
     <<978147, 809016, 500000, 104528, -309016, -669130, -913545, -1000000, -913545, -669130,
       -309016, 104528, 500000, 809016, 978147>>,
     <<980785, 831469, 555570, 195090, -195090, -555570, -831469, -980785, -980785, -831469,
       -555570, -195090, 195090, 555570, 831469, 980785>>,
     <<982973, 850217, 602634, 273662, -92268, -445738, -739008, -932472, -1000000, -932472,
       -739008, -445738, -92268, 273662, 602634, 850217, 982973>>,
     <<984807, 866025, 642787, 342020, 0, -342020, -642787, -866025, -984807, -984807, -866025,
       -642787, -342020, 0, 342020, 642787, 866025, 984807>>,
     <<986361, 879473, 677281, 401695, 82579, -245485, -546948, -789140, -945817, -1000000,
       -945817, -789140, -546948, -245485, 82579, 401695, 677281, 879473, 986361>>,
     <<987688, 891006, 707106, 453990, 156434, -156434, -453990, -707106, -891006, -987688,
       -987688, -891006, -707106, -453990, -156434, 156434, 453990, 707106, 891006, 987688>>
  >>

\* SinHalfTab[n][i+1]: math.sin(2 * math.pi * (i + 0.5) / n).
SinHalfTab ==
  <<
     <<0>>,
     <<1000000, -1000000>>,
     <<866025, 0, -866025>>,
     <<707106, 707106, -707106, -707106>>,
     <<587785, 951056, 0, -951056, -587785>>,
     <<499999, 1000000, 499999, -499999, -1000000, -500000>>,
     <<433883, 974927, 781831, 0, -781831, -974927, -433883>>,
     <<382683, 923879, 923879, 382683, -382683, -923879, -923879, -382683>>,
     <<342020, 866025, 984807, 642787, 0, -642787, -984807, -866025, -342020>>,
     <<309016, 809016, 1000000, 809016, 309016, -309016, -809016, -1000000, -809016, -309016>>,
     <<281732, 755749, 989821, 909631, 540640, 0, -540640, -909631, -989821, -755749, -281732>>,
     <<258819, 707106, 965925, 965925, 707106, 258819, -258819, -707106, -965925, -965925,
       -707106, -258819>>,
     <<239315, 663122, 935016, 992708, 822983, 464723, 0, -464723, -822983, -992708, -935016,
       -663122, -239315>>,
     <<222520, 623489, 900968, 1000000, 900968, 623489, 222520, -222520, -623489, -900968,
       -1000000, -900968, -623489, -222520>>,
     <<207911, 587785, 866025, 994521, 951056, 743144, 406736, 0, -406736, -743144, -951056,
       -994521, -866025, -587785, -207911>>,
     <<195090, 555570, 831469, 980785, 980785, 831469, 555570, 195090, -195090, -555570,
       -831469, -980785, -980785, -831469, -555570, -195090>>,
     <<183749, 526432, 798017, 961825, 995734, 895163, 673695, 361241, 0, -361241, -673695,
       -895163, -995734, -961825, -798017, -526432, -183749>>,
     <<173648, 499999, 766044, 939692, 1000000, 939692, 766044, 500000, 173648, -173648,
       -500000, -766044, -939692, -1000000, -939692, -766044, -499999, -173648>>,
     <<164594, 475947, 735723, 915773, 996584, 969400, 837166, 614212, 324699, 0, -324699,
       -614212, -837166, -969400, -996584, -915773, -735723, -475947, -164594>>,
     <<156434, 453990, 707106, 891006, 987688, 987688, 891006, 707106, 453990, 156434, -156434,
       -453990, -707106, -891006, -987688, -987688, -891006, -707106, -453990, -156434>>
  >>

\* SpiralCosTab[c][i+1]: math.cos(i * (2 * math.pi / (8 + c))) for complexity c in 1..9,
\* i in 0..int(20 + c * 2)-1.
SpiralCosTab ==
  <<
     <<1000000, 766044, 173648, -499999, -939692, -939692, -500000, 173648, 766044, 1000000,
       766044, 173648, -499999, -939692, -939692, -499999, 173648, 766044, 1000000, 766044,
       173648, -499999>>,
     <<1000000, 809016, 309016, -309016, -809016, -1000000, -809016, -309016, 309016, 809016,
       1000000, 809016, 309016, -309016, -809016, -1000000, -809016, -309016, 309016, 809016,
       1000000, 809016, 309016, -309016>>,
     <<1000000, 841253, 415415, -142314, -654860, -959492, -959492, -654860, -142314, 415415,
       841253, 1000000, 841253, 415415, -142314, -654860, -959492, -959492, -654860, -142314,
       415415, 841253, 1000000, 841253, 415415, -142314>>,
     <<1000000, 866025, 500000, 0, -499999, -866025, -1000000, -866025, -500000, 0, 499999,
       866025, 1000000, 866025, 500000, 0, -499999, -866025, -1000000, -866025, -500000, 0,
       499999, 866025, 1000000, 866025, 500000, 0>>,
     <<1000000, 885456, 568064, 120536, -354604, -748510, -970941, -970941, -748510, -354604,
       120536, 568064, 885456, 1000000, 885456, 568064, 120536, -354604, -748510, -970941,
       -970941, -748510, -354604, 120536, 568064, 885456, 1000000, 885456, 568064, 120536>>,
     <<1000000, 900968, 623489, 222520, -222520, -623489, -900968, -1000000, -900968, -623489,
       -222520, 222520, 623489, 900968, 1000000, 900968, 623489, 222520, -222520, -623489,
       -900968, -1000000, -900968, -623489, -222520, 222520, 623489, 900968, 1000000, 900968,
       623489, 222520>>,
     <<1000000, 913545, 669130, 309016, -104528, -499999, -809016, -978147, -978147, -809016,
       -500000, -104528, 309016, 669130, 913545, 1000000, 913545, 669130, 309016, -104528,
       -499999, -809016, -978147, -978147, -809016, -500000, -104528, 309016, 669130, 913545,
       1000000, 913545, 669130, 309016>>,
     <<1000000, 923879, 707106, 382683, 0, -382683, -707106, -923879, -1000000, -923879,
       -707106, -382683, 0, 382683, 707106, 923879, 1000000, 923879, 707106, 382683, 0, -382683,
       -707106, -923879, -1000000, -923879, -707106, -382683, 0, 382683, 707106, 923879,
       1000000, 923879, 707106, 382683>>,
     <<1000000, 932472, 739008, 445738, 92268, -273662, -602634, -850217, -982973, -982973,
       -850217, -602634, -273662, 92268, 445738, 739008, 932472, 1000000, 932472, 739008,
       445738, 92268, -273662, -602634, -850217, -982973, -982973, -850217, -602634, -273662,
       92268, 445738, 739008, 932472, 1000000, 932472, 739008, 445738>>
  >>

\* SpiralSinTab[c][i+1]: math.sin(i * (2 * math.pi / (8 + c))).
SpiralSinTab ==
  <<
     <<0, 642787, 984807, 866025, 342020, -342020, -866025, -984807, -642787, 0, 642787, 984807,
       866025, 342020, -342020, -866025, -984807, -642787, 0, 642787, 984807, 866025>>,
     <<0, 587785, 951056, 951056, 587785, 0, -587785, -951056, -951056, -587785, 0, 587785,
       951056, 951056, 587785, 0, -587785, -951056, -951056, -587785, 0, 587785, 951056,
       951056>>,
     <<0, 540640, 909631, 989821, 755749, 281732, -281732, -755749, -989821, -909631, -540640,
       0, 540640, 909631, 989821, 755749, 281732, -281732, -755749, -989821, -909631, -540640,
       0, 540640, 909631, 989821>>,
     <<0, 499999, 866025, 1000000, 866025, 500000, 0, -499999, -866025, -1000000, -866025,
       -500000, 0, 499999, 866025, 1000000, 866025, 500000, 0, -499999, -866025, -1000000,
       -866025, -500000, 0, 499999, 866025, 1000000>>,
     <<0, 464723, 822983, 992708, 935016, 663122, 239315, -239315, -663122, -935016, -992708,
       -822983, -464723, 0, 464723, 822983, 992708, 935016, 663122, 239315, -239315, -663122,
       -935016, -992708, -822983, -464723, 0, 464723, 822983, 992708>>,
     <<0, 433883, 781831, 974927, 974927, 781831, 433883, 0, -433883, -781831, -974927, -974927,
       -781831, -433883, 0, 433883, 781831, 974927, 974927, 781831, 433883, 0, -433883, -781831,
       -974927, -974927, -781831, -433883, 0, 433883, 781831, 974927>>,
     <<0, 406736, 743144, 951056, 994521, 866025, 587785, 207911, -207911, -587785, -866025,
       -994521, -951056, -743144, -406736, 0, 406736, 743144, 951056, 994521, 866025, 587785,
       207911, -207911, -587785, -866025, -994521, -951056, -743144, -406736, 0, 406736, 743144,
       951056>>,
     <<0, 382683, 707106, 923879, 1000000, 923879, 707106, 382683, 0, -382683, -707106, -923879,
       -1000000, -923879, -707106, -382683, 0, 382683, 707106, 923879, 1000000, 923879, 707106,
       382683, 0, -382683, -707106, -923879, -1000000, -923879, -707106, -382683, 0, 382683,
       707106, 923879>>,
     <<0, 361241, 673695, 895163, 995734, 961825, 798017, 526432, 183749, -183749, -526432,
       -798017, -961825, -995734, -895163, -673695, -361241, 0, 361241, 673695, 895163, 995734,
       961825, 798017, 526432, 183749, -183749, -526432, -798017, -961825, -995734, -895163,
       -673695, -361241, 0, 361241, 673695, 895163>>
  >>

(***************************************************************************)
(* Python values and helpers                                               *)
(***************************************************************************)

\* A value held in a dict: its Python type and its content.
PyInt(n) == [t |-> "int", v |-> n]
PyStr(s) == [t |-> "str", v |-> s]
PyList(s) == [t |-> "list", v |-> s]
\* A value that is neither an int, a str nor a list (a float such as 7.5).
PyOther == [t |-> "other", v |-> 0]

\* None, which dict.get(key) gives for a missing key
PyNone == [t |-> "none", v |-> 0]

\* value in names, for a list of strings: only an equal string is found
InStrs(value, names) == value.t = "str" /\ value.v \in names

\* dict.get(key, default)
Get(d, key, default) == IF key \in DOMAIN d THEN d[key] ELSE default

\* d[key] = value
SetKey(d, key, value) == [k \in DOMAIN d \cup {key} |-> IF k = key THEN value ELSE d[k]]

\* d.update(other)
Update(d, other) == [k \in DOMAIN d \cup DOMAIN other |-> IF k \in DOMAIN other THEN other[k] ELSE d[k]]

Min(a, b) == IF a <= b THEN a ELSE b

Max(a, b) == IF a >= b THEN a ELSE b

\* int(a / b) for b > 0: truncation toward zero.
TruncDiv(a, b) == IF a >= 0 THEN a \div b ELSE -((-a) \div b)

\* int((num / den) * c) for a table value c.
TruncMul(num, den, c) == TruncDiv(num * c, den * FixScale)

\* 0 <= x < grid_size and 0 <= y < grid_size
InGrid(p, grid_size) == 0 <= p[1] /\ p[1] < grid_size /\ 0 <= p[2] /\ p[2] < grid_size

\* (center + int(r * cos(2*pi*i/n)), center + int(r * sin(2*pi*i/n))), r = num/den
PolarPoint(center, num, den, n, i) ==
  <<center + TruncMul(num, den, CosTab[n][i + 1]),
    center + TruncMul(num, den, SinTab[n][i + 1])>>

\* The same at the angle 2*pi*(i + 0.5)/n.
PolarHalfPoint(center, r, n, i) ==
  <<center + TruncMul(r, 1, CosHalfTab[n][i + 1]),
    center + TruncMul(r, 1, SinHalfTab[n][i + 1])>>

RECURSIVE ConcatRange(_, _, _)
\* ss[lo] \o ... \o ss[hi], halving the range
ConcatRange(ss, lo, hi) ==
  IF lo > hi THEN <<>>
  ELSE IF lo = hi THEN ss[lo]
  ELSE ConcatRange(ss, lo, (lo + hi) \div 2) \o ConcatRange(ss, (lo + hi) \div 2 + 1, hi)

\* The concatenation of a sequence of sequences.
Concat(ss) == ConcatRange(ss, 1, Len(ss))

\* x in list
InList(x, s) == \E k \in 1..Len(s) : s[k] = x

\* The list returned as built, without the pass through set()
ListKeepAll(s) == s

\* list(set(dots)): every distinct element once.  The order CPython gives is
\* that of its hash table; the model lists the elements by first occurrence.
ListSet(s) ==
  LET first == SelectSeq([k \in 1..Len(s) |-> k], LAMBDA k : \A j \in 1..(k - 1) : s[j] # s[k])
  IN  [k \in 1..Len(first) |-> s[first[k]]]

\* The KolamPattern dataclass.  description is the text with the number
\* formatted into it (0 when the text has none).
KolamPattern(dots, connections, pattern_type, symmetry, complexity, text, n, cultural, grid_size) ==
  [dots |-> dots, connections |-> connections, pattern_type |-> pattern_type,
   symmetry |-> symmetry, complexity |-> complexity,
   description |-> [text |-> text, n |-> n],
   cultural_significance |-> cultural, grid_size |-> grid_size]

\* What a generator call leaves behind: the returned pattern, or the exception
\* raised instead (exc = "" when none), and the analysis dict after the call.
Returned(pattern, analysis) == [exc |-> "", pattern |-> pattern, analysis |-> analysis]

NoPattern == KolamPattern(<<>>, <<>>, "", PyStr(""), 0, "", 0, PyStr(""), 0)

Raised(exc, analysis) == [exc |-> exc, pattern |-> NoPattern, analysis |-> analysis]

(***************************************************************************)
(* _create_flower_template                                                 *)
(***************************************************************************)

\* min(center - 1, 1 + complexity // 2): the floor of 2 left out
FlowerPetalRadiusNoFloor(center, complexity) == Min(center - 1, 1 + complexity \div 2)

\* petal_radius = min(center - 1, max(2, 1 + complexity // 2))
FlowerPetalRadius(center, complexity) == Min(center - 1, Max(2, 1 + complexity \div 2))

\* The pass with the intermediate point inserted from complexity 5 on
FlowerPetalStepFromFive(c, grid_size, complexity, p, mid) ==
  IF ~InGrid(p, grid_size) THEN [petal |-> <<>>, dots |-> <<>>, connections |-> <<>>]
  ELSE IF complexity > 4 /\ InGrid(mid, grid_size)
       THEN [petal |-> <<p>>, dots |-> <<p, mid>>,
             connections |-> << <<c, p>>, <<c, mid>>, <<mid, p>> >>]
       ELSE [petal |-> <<p>>, dots |-> <<p>>, connections |-> << <<c, p>> >>]

\* One pass of the petal loop, for the petal point p and the intermediate point
\* mid of its angle: the dots and connections it appends.
FlowerPetalStep(c, grid_size, complexity, p, mid) ==
  IF ~InGrid(p, grid_size) THEN [petal |-> <<>>, dots |-> <<>>, connections |-> <<>>]
  ELSE IF complexity > 5 /\ InGrid(mid, grid_size)
       THEN [petal |-> <<p>>, dots |-> <<p, mid>>,
             connections |-> << <<c, p>>, <<c, mid>>, <<mid, p>> >>]
       ELSE [petal |-> <<p>>, dots |-> <<p>>, connections |-> << <<c, p>> >>]

\* The passes of the petal loop, i = 0 .. petal_count - 1; mid_radius = petal_radius * 0.6
FlowerPetalSteps(center, grid_size, petal_radius, petal_count, complexity) ==
  [k \in 1..petal_count |->
     FlowerPetalStep(<<center, center>>, grid_size, complexity,
                     PolarPoint(center, petal_radius, 1, petal_count, k - 1),
                     PolarPoint(center, petal_radius * 6, 10, petal_count, k - 1))]

\* The largest k >= 0 with k <= (0.8 * petal_radius) * |num| / sqrt(h), signed as num:
\* int(curve_radius * cos(mid_angle)) where cos(atan2(dy, dx)) = dx / sqrt(dx^2 + dy^2).
CurveTrunc(petal_radius, num, h) ==
  LET k == CHOOSE j \in 0..petal_radius :
             /\ 100 * j * j * h <= 64 * petal_radius * petal_radius * num * num
             /\ 100 * (j + 1) * (j + 1) * h > 64 * petal_radius * petal_radius * num * num
  IN  IF num >= 0 THEN k ELSE -k

\* The curve point between petals p1 and p2; dx2, dy2 are twice the offsets of
\* their midpoint from the center.  atan2(0, 0) is 0.
FlowerCurvePoint(center, petal_radius, p1, p2) ==
  LET dx2 == p1[1] + p2[1] - 2 * center
      dy2 == p1[2] + p2[2] - 2 * center
      h == dx2 * dx2 + dy2 * dy2
  IN  IF h = 0 THEN <<center + TruncDiv(8 * petal_radius, 10), center>>
      ELSE <<center + CurveTrunc(petal_radius, dx2, h), center + CurveTrunc(petal_radius, dy2, h)>>

RECURSIVE FlowerCurves(_, _, _, _, _, _, _)
\* The petal-to-petal loop from index i (1-based) on, at complexity > 6.
FlowerCurves(center, grid_size, petal_radius, petal_points, i, dots, connections) ==
  IF i > Len(petal_points) THEN [dots |-> dots, connections |-> connections]
  ELSE LET p1 == petal_points[i]
           p2 == petal_points[(i % Len(petal_points)) + 1]
           cp == FlowerCurvePoint(center, petal_radius, p1, p2)
       IN  IF InGrid(cp, grid_size)
           THEN FlowerCurves(center, grid_size, petal_radius, petal_points, i + 1,
                             IF InList(cp, dots) THEN dots ELSE Append(dots, cp),
                             connections \o << <<p1, cp>>, <<cp, p2>> >>)
           ELSE FlowerCurves(center, grid_size, petal_radius, petal_points, i + 1, dots, connections)

\* Each element of a ring connected to its successor, the last to the first.
RingConnections(ring_points) ==
  [k \in 1..Len(ring_points) |-> <<ring_points[k], ring_points[(k % Len(ring_points)) + 1]>>]

\* The in-bounds points of the inner ring, petal_count * 2 of them at most.
FlowerRingPoints(center, grid_size, ring_radius, petal_count) ==
  SelectSeq([k \in 1..(petal_count * 2) |->
               PolarPoint(center, ring_radius, 1, petal_count * 2, k - 1)],
            LAMBDA p : InGrid(p, grid_size))

\* The pattern built from the passes of the petal loop and the inner ring's points.
FlowerPattern(analysis, grid_size, center, petal_count, complexity, petal_radius, steps, ring_points) ==
  LET petal_points == Concat([k \in 1..petal_count |-> steps[k].petal])
      dots1 == <<<<center, center>>>> \o Concat([k \in 1..petal_count |-> steps[k].dots])
      connections1 == Concat([k \in 1..petal_count |-> steps[k].connections])
      curved == IF complexity > 3 /\ Len(petal_points) > 2 /\ complexity > 6
                THEN FlowerCurves(center, grid_size, petal_radius, petal_points, 1, dots1, connections1)
                ELSE [dots |-> dots1, connections |-> connections1]
      dots == IF complexity > 7 THEN curved.dots \o ring_points ELSE curved.dots
      connections == IF complexity > 7 THEN curved.connections \o RingConnections(ring_points)
                     ELSE curved.connections
  IN  Returned(KolamPattern(ListSet(dots), connections, "flower",
                            Get(analysis, "symmetry_type", PyStr("rotational")), complexity,
                            "Enhanced flower pattern with petals", petal_count,
                            Get(analysis, "cultural_context",
                                PyStr("Represents prosperity and natural beauty in Tamil culture")),
                            grid_size),
               analysis)

create_flower_template(analysis, grid_size) ==
  LET center == grid_size \div 2
      petal_count == Get(analysis, "suggested_count", Get(analysis, "count", PyInt(8))).v
      complexity == Get(analysis, "complexity", PyInt(5)).v
      petal_radius == FlowerPetalRadius(center, complexity)
      ring_radius == Max(1, petal_radius \div 2)
  IN  FlowerPattern(analysis, grid_size, center, petal_count, complexity, petal_radius,
                    FlowerPetalSteps(center, grid_size, petal_radius, petal_count, complexity),
                    FlowerRingPoints(center, grid_size, ring_radius, petal_count))

(***************************************************************************)
(* _create_lotus_template                                                  *)
(***************************************************************************)

\* The inner radius with the sign of the offset slipped: max(1, center + 2)
LotusInnerRadiusPlus(center) == Max(1, center + 2)

\* inner_radius = max(1, center - 2)
LotusInnerRadius(center) == Max(1, center - 2)

\* outer_radius = min(center, inner_radius + 1)
LotusOuterRadius(center, inner_radius) == Min(center, inner_radius + 1)

\* The inner petals kept by a bounds test that stops at the center column: 0 <= x <= center
LotusInnerLeftHalf(center, grid_size, inner_radius, petal_count) ==
  SelectSeq([k \in 1..petal_count |-> PolarPoint(center, inner_radius, 1, petal_count, k - 1)],
            LAMBDA p : InGrid(p, grid_size) /\ p[1] <= center)

\* The inner petals that pass the bounds test.
LotusInner(center, grid_size, inner_radius, petal_count) ==
  SelectSeq([k \in 1..petal_count |-> PolarPoint(center, inner_radius, 1, petal_count, k - 1)],
            LAMBDA p : InGrid(p, grid_size))

\* The offset outer petals that pass the bounds test, with their loop index.
LotusOuter(center, grid_size, outer_radius, petal_count) ==
  SelectSeq([k \in 1..petal_count |->
               [i |-> k - 1, p |-> PolarHalfPoint(center, outer_radius, petal_count, k - 1)]],
            LAMBDA o : InGrid(o.p, grid_size))

\* The pattern built from the inner and the outer petals.
LotusPattern(analysis, grid_size, center, complexity, petal_count, inner_radius, inner, outer) ==
  LET c == <<center, center>>
      dots == <<c>> \o inner \o
              (IF complexity > 4 THEN [k \in 1..Len(outer) |-> outer[k].p] ELSE <<>>)
      connections ==
        [k \in 1..Len(inner) |-> <<c, inner[k]>>] \o
        (IF complexity > 4
         THEN [k \in 1..Len(outer) |->
                 <<PolarPoint(center, inner_radius, 1, petal_count, outer[k].i), outer[k].p>>]
         ELSE <<>>)
  IN  Returned(KolamPattern(ListSet(dots), connections, "lotus", PyStr("rotational"), complexity,
                            "Lotus pattern with petals", petal_count,
                            PyStr("Sacred flower representing purity and enlightenment"), grid_size),
               analysis)

create_lotus_template(analysis, grid_size) ==
  LET center == grid_size \div 2
      complexity == Get(analysis, "complexity", PyInt(5)).v
      petal_count == Get(analysis, "count", PyInt(8)).v
      inner_radius == LotusInnerRadius(center)
      outer_radius == LotusOuterRadius(center, inner_radius)
  IN  LotusPattern(analysis, grid_size, center, complexity, petal_count, inner_radius,
                   LotusInner(center, grid_size, inner_radius, petal_count),
                   LotusOuter(center, grid_size, outer_radius, petal_count))

(***************************************************************************)
(* _create_star_template                                                   *)
(***************************************************************************)

\* The outer radius with the sign slipped: center + 1
StarOuterRadiusPlus(center) == center + 1

\* outer_radius = center - 1
StarOuterRadius(center) == center - 1

\* The inner radius doubled instead of halved: max(1, outer_radius * 2)
StarInnerRadiusDouble(outer_radius) == Max(1, outer_radius * 2)

\* The inner radius without the halving: max(1, outer_radius)
StarInnerRadiusFull(outer_radius) == Max(1, outer_radius)

\* inner_radius = max(1, outer_radius // 2)
StarInnerRadius(outer_radius) == Max(1, outer_radius \div 2)

\* list[k] does not raise IndexError
IndexOk(s, k) == -Len(s) <= k /\ k < Len(s)

\* list[k], negative k counting from the end
Item(s, k) == IF k >= 0 THEN s[k + 1] ELSE s[Len(s) + k + 1]

\* The outer points that pass the bounds test.
StarOuterPoints(center, grid_size, outer_radius, points) ==
  SelectSeq([k \in 1..points |-> PolarPoint(center, outer_radius, 1, points, k - 1)],
            LAMBDA p : InGrid(p, grid_size))

\* The inner points, half a step on, that pass the bounds test.
StarInnerPoints(center, grid_size, inner_radius, points) ==
  SelectSeq([k \in 1..points |-> PolarHalfPoint(center, inner_radius, points, k - 1)],
            LAMBDA p : InGrid(p, grid_size))

\* The pattern built from the outer and the inner points, or the IndexError of
\* the connection loop.
StarPattern(analysis, grid_size, center, points, complexity, outer_points, inner_points) ==
  LET c == <<center, center>>
      dots == <<c>> \o outer_points \o inner_points
      indexError == \E i \in 0..(points - 1) :
                      ~IndexOk(outer_points, i) \/ ~IndexOk(inner_points, i - 1) \/ ~IndexOk(inner_points, i)
      connections ==
        Concat([k \in 1..points |->
                  LET outer_point == Item(outer_points, k - 1)
                      prev_inner == Item(inner_points, k - 2)
                      curr_inner == Item(inner_points, k - 1)
                  IN  << <<prev_inner, outer_point>>, <<outer_point, curr_inner>> >> \o
                      (IF complexity > 6 THEN << <<c, outer_point>> >> ELSE <<>>)])
  IN  IF indexError THEN Raised("IndexError", analysis)
      ELSE Returned(KolamPattern(ListSet(dots), connections, "star", PyStr("rotational"), complexity,
                                 "Star pattern with points", points,
                                 PyStr("Represents guidance and celestial harmony"), grid_size),
                    analysis)

create_star_template(analysis, grid_size) ==
  LET center == grid_size \div 2
      points == Get(analysis, "count", PyInt(6)).v
      complexity == Get(analysis, "complexity", PyInt(5)).v
      outer_radius == StarOuterRadius(center)
      inner_radius == StarInnerRadius(outer_radius)
  IN  StarPattern(analysis, grid_size, center, points, complexity,
                  StarOuterPoints(center, grid_size, outer_radius, points),
                  StarInnerPoints(center, grid_size, inner_radius, points))

(***************************************************************************)
(* _create_diamond_template                                                *)
(***************************************************************************)

\* The selection without its second test: radius % (10 - complexity) == 0
DiamondRingSelectedByModulus(radius, max_radius, complexity) ==
  LET m == 10 - complexity
  IN  radius % (IF m > 0 THEN m ELSE -m) = 0

\* radius % (10 - complexity) == 0 or radius == max_radius, for a non-zero modulus
DiamondRingSelected(radius, max_radius, complexity) ==
  LET m == 10 - complexity
  IN  radius % (IF m > 0 THEN m ELSE -m) = 0 \/ radius = max_radius

\* The dots one selected radius appends.
DiamondRing(center, grid_size, radius, complexity) ==
  LET diag_offset == radius \div 2
  IN  (IF center - radius >= 0 THEN << <<center, center - radius>> >> ELSE <<>>) \o
      (IF center + radius < grid_size THEN << <<center, center + radius>> >> ELSE <<>>) \o
      (IF center - radius >= 0 THEN << <<center - radius, center>> >> ELSE <<>>) \o
      (IF center + radius < grid_size THEN << <<center + radius, center>> >> ELSE <<>>) \o
      (IF complexity > 6
       THEN SelectSeq(<< <<center + diag_offset, center + diag_offset>>,
                         <<center - diag_offset, center + diag_offset>>,
                         <<center + diag_offset, center - diag_offset>>,
                         <<center - diag_offset, center - diag_offset>> >>,
                      LAMBDA p : InGrid(p, grid_size))
       ELSE <<>>)

\* (dot1[0] - dot2[0])**2 + (dot1[1] - dot2[1])**2
DistSq(dot1, dot2) ==
  (dot1[1] - dot2[1]) * (dot1[1] - dot2[1]) + (dot1[2] - dot2[2]) * (dot1[2] - dot2[2])

\* for i, dot1 in enumerate(dots): for dot2 in dots[i+1:]: the pairs (dot1, dot2) in loop order
Pairs(dots) ==
  Concat([i \in 1..Len(dots) |-> [j \in 1..(Len(dots) - i) |-> <<dots[i], dots[i + j]>>]])

\* 1 < dist <= 2.5: the lower limit taken strictly
DiamondNearAbove(dot1, dot2) == 1 < DistSq(dot1, dot2) /\ 4 * DistSq(dot1, dot2) <= 25

\* 1 <= dist <= 2.5, dist the square root of an integer
DiamondNear(dot1, dot2) == 1 <= DistSq(dot1, dot2) /\ 4 * DistSq(dot1, dot2) <= 25

create_diamond_template(analysis, grid_size) ==
  LET center == grid_size \div 2
      complexity == Get(analysis, "complexity", PyInt(5)).v
      max_radius == center - 1
      rings == [radius \in 1..max_radius |->
                  IF DiamondRingSelected(radius, max_radius, complexity)
                  THEN DiamondRing(center, grid_size, radius, complexity) ELSE <<>>]
      dots == ListSet(Concat(rings))
      connections == SelectSeq(Pairs(dots), LAMBDA pr : DiamondNear(pr[1], pr[2]))
  IN  IF max_radius >= 1 /\ 10 - complexity = 0 THEN Raised("ZeroDivisionError", analysis)
      ELSE Returned(KolamPattern(dots, connections, "diamond", PyStr("bilateral"), complexity,
                                 "Diamond geometric pattern", 0,
                                 PyStr("Represents stability and balance"), grid_size),
                    analysis)

(***************************************************************************)
(* _create_spiral_template                                                 *)
(***************************************************************************)

\* radius = i * radius_step with radius_step = 0.3 + complexity / 20, as the
\* fraction SpiralRadiusNum(i, complexity) / 20
SpiralRadiusNum(i, complexity) == i * (6 + complexity)

\* (x, y) of step i: center + int(radius * cos(angle)), center + int(radius * sin(angle))
\* with angle = i * angle_step
SpiralDot(center, complexity, i) ==
  <<center + TruncMul(SpiralRadiusNum(i, complexity), 20, SpiralCosTab[complexity][i + 1]),
    center + TruncMul(SpiralRadiusNum(i, complexity), 20, SpiralSinTab[complexity][i + 1])>>

\* The point of every step in range(int(20 + complexity * 2))
SpiralSteps(center, complexity) ==
  [k \in 1..(20 + complexity * 2) |-> SpiralDot(center, complexity, k - 1)]

RECURSIVE SpiralWalkFromFirst(_, _, _, _, _, _, _, _)
\* The loop with prev_dot set once: every point is connected from the first one.
SpiralWalkFromFirst(center, grid_size, complexity, steps, i, prev_dot, dots, connections) ==
  IF i >= 20 + complexity * 2 \/ SpiralRadiusNum(i, complexity) >= 20 * (center - 1)
  THEN [dots |-> dots, connections |-> connections]
  ELSE IF InGrid(steps[i + 1], grid_size)
       THEN SpiralWalkFromFirst(center, grid_size, complexity, steps, i + 1,
                                IF prev_dot # <<>> THEN prev_dot ELSE steps[i + 1],
                                Append(dots, steps[i + 1]),
                                IF prev_dot # <<>> THEN Append(connections, <<prev_dot, steps[i + 1]>>)
                                ELSE connections)
       ELSE SpiralWalkFromFirst(center, grid_size, complexity, steps, i + 1, prev_dot, dots,
                                connections)

RECURSIVE SpiralWalk(_, _, _, _, _, _, _, _)
\* The loop from step i on, steps[i + 1] being the point of step i; prev_dot is
\* <<>> for None.
SpiralWalk(center, grid_size, complexity, steps, i, prev_dot, dots, connections) ==
  IF i >= 20 + complexity * 2 \/ SpiralRadiusNum(i, complexity) >= 20 * (center - 1)
  THEN [dots |-> dots, connections |-> connections]
  ELSE IF InGrid(steps[i + 1], grid_size)
       THEN SpiralWalk(center, grid_size, complexity, steps, i + 1, steps[i + 1],
                       Append(dots, steps[i + 1]),
                       IF prev_dot # <<>> THEN Append(connections, <<prev_dot, steps[i + 1]>>)
                       ELSE connections)
       ELSE SpiralWalk(center, grid_size, complexity, steps, i + 1, prev_dot, dots, connections)

\* The pattern built from what the loop collected.
SpiralPattern(analysis, grid_size, complexity, walk) ==
  Returned(KolamPattern(ListSet(walk.dots), walk.connections, "spiral", PyStr("rotational"),
                        complexity, "Spiral pattern representing cosmic energy", 0,
                        PyStr("Represents the cycle of life and cosmic energy"), grid_size),
           analysis)

create_spiral_template(analysis, grid_size) ==
  LET center == grid_size \div 2
      complexity == Get(analysis, "complexity", PyInt(5)).v
  IN  SpiralPattern(analysis, grid_size, complexity,
                    SpiralWalk(center, grid_size, complexity, SpiralSteps(center, complexity),
                               0, <<>>, <<>>, <<>>))

(***************************************************************************)
(* _create_mandala_template                                                *)
(***************************************************************************)

\* ring % max(1, (10 - complexity) // 2) == 0
MandalaRingSelected(ring, complexity) == ring % Max(1, (10 - complexity) \div 2) = 0

\* The in-bounds points of one ring, in angular order.
MandalaRingDots(center, grid_size, segments, ring) ==
  SelectSeq([k \in 1..(segments * ring) |-> PolarPoint(center, ring, 1, segments * ring, k - 1)],
            LAMBDA p : InGrid(p, grid_size))

\* The connections of one ring: each point to its successor and, on ring 1,
\* the center to the point.
MandalaRingConnections(center, ring, ring_dots) ==
  Concat([k \in 1..Len(ring_dots) |->
            << <<ring_dots[k], ring_dots[(k % Len(ring_dots)) + 1]>> >> \o
            (IF ring = 1 THEN << <<<<center, center>>, ring_dots[k]>> >> ELSE <<>>)])

\* What each ring of range(1, center) adds: its in-bounds points when selected.
MandalaRings(center, grid_size, complexity, segments) ==
  [ring \in 1..(center - 1) |->
     IF MandalaRingSelected(ring, complexity)
     THEN MandalaRingDots(center, grid_size, segments, ring) ELSE <<>>]

\* The pattern built from the rings.
MandalaPattern(analysis, grid_size, center, complexity, segments, rings) ==
  LET dots == <<<<center, center>>>> \o Concat(rings)
      connections == Concat([ring \in 1..(center - 1) |->
                               MandalaRingConnections(center, ring, rings[ring])])
  IN  Returned(KolamPattern(ListSet(dots), connections, "mandala", PyStr("rotational"), complexity,
                            "Mandala pattern with segments", segments,
                            PyStr("Represents wholeness and cosmic order"), grid_size),
               analysis)

create_mandala_template(analysis, grid_size) ==
  LET center == grid_size \div 2
      complexity == Get(analysis, "complexity", PyInt(5)).v
      segments == Get(analysis, "count", PyInt(8)).v
  IN  MandalaPattern(analysis, grid_size, center, complexity, segments,
                     MandalaRings(center, grid_size, complexity, segments))

(***************************************************************************)
(* _create_geometric_template                                              *)
(***************************************************************************)

\* step = max(1, (10 - complexity) // 3)
GeometricStep(complexity) == Max(1, (10 - complexity) \div 3)

\* range(0, stop, step) as a sequence
StepRange(stop, step) == [k \in 1..((stop + step - 1) \div step) |-> (k - 1) * step]

\* dist <= step: the factor 1.5 left out
GeometricNearAxis(step, dot1, dot2) == DistSq(dot1, dot2) <= step * step

\* dist <= step * 1.5
GeometricNear(step, dot1, dot2) == 4 * DistSq(dot1, dot2) <= 9 * step * step

create_geometric_template(analysis, grid_size) ==
  LET complexity == Get(analysis, "complexity", PyInt(5)).v
      step == GeometricStep(complexity)
      axis == StepRange(grid_size, step)
      dots == Concat([a \in 1..Len(axis) |->
                        SelectSeq([b \in 1..Len(axis) |-> <<axis[a], axis[b]>>],
                                  LAMBDA p : p[1] < grid_size /\ p[2] < grid_size)])
      connections == SelectSeq(Pairs(dots), LAMBDA pr : GeometricNear(step, pr[1], pr[2]))
  IN  Returned(KolamPattern(dots, connections, "geometric",
                            Get(analysis, "symmetry_type", PyStr("bilateral")), complexity,
                            "Geometric grid pattern", 0,
                            PyStr("Represents mathematical harmony"), grid_size),
               analysis)

(***************************************************************************)
(* _create_traditional_template, _create_pattern_from_analysis             *)
(***************************************************************************)

\* analysis['pattern_type'] = 'flower', then the flower generator on the same dict
create_traditional_template(analysis, grid_size) ==
  create_flower_template(SetKey(analysis, "pattern_type", PyStr("flower")), grid_size)

\* The keys of self.pattern_templates
pattern_templates == {"flower", "lotus", "star", "diamond", "spiral", "mandala", "geometric", "traditional"}

\* The dispatch with the first registered template as the fallback
TemplateForFirst(pattern_type) ==
  IF pattern_type.t = "str" /\ pattern_type.v \in pattern_templates THEN pattern_type.v
  ELSE "flower"

\* The generator a pattern_type is dispatched to: its own when registered in
\* self.pattern_templates, the geometric one otherwise.
TemplateFor(pattern_type) ==
  IF pattern_type.t = "str" /\ pattern_type.v \in pattern_templates THEN pattern_type.v
  ELSE "geometric"

create_pattern_from_analysis(analysis, grid_size) ==
  LET template == TemplateFor(Get(analysis, "pattern_type", PyStr("geometric")))
  IN  CASE template = "flower" -> create_flower_template(analysis, grid_size)
        [] template = "lotus" -> create_lotus_template(analysis, grid_size)
        [] template = "star" -> create_star_template(analysis, grid_size)
        [] template = "diamond" -> create_diamond_template(analysis, grid_size)
        [] template = "spiral" -> create_spiral_template(analysis, grid_size)
        [] template = "mandala" -> create_mandala_template(analysis, grid_size)
        [] template = "geometric" -> create_geometric_template(analysis, grid_size)
        [] template = "traditional" -> create_traditional_template(analysis, grid_size)


(***************************************************************************)
(* _validate_ai_guidance                                                   *)
(***************************************************************************)

valid_patterns == {"flower", "lotus", "star", "diamond", "spiral", "mandala", "geometric", "traditional"}

valid_symmetries == {"rotational", "bilateral", "point", "radial"}

\* isinstance(complexity, int) and not (complexity < 1 or complexity > 9)
ValidComplexity(complexity) == complexity.t = "int" /\ ~(complexity.v < 1 \/ complexity.v > 9)

\* The count test without its upper limit
ValidCountNoUpper(count) == count.t = "int" /\ ~(count.v < 3)

\* isinstance(count, int) and not (count < 3 or count > 16)
ValidCount(count) == count.t = "int" /\ ~(count.v < 3 \/ count.v > 16)

\* The dict is sanitized in place, test by test, and returned.
validate_ai_guidance(guidance) ==
  LET g1 == IF ~InStrs(Get(guidance, "pattern_type", PyNone), valid_patterns)
            THEN SetKey(guidance, "pattern_type", PyStr("flower")) ELSE guidance
      g2 == IF ~InStrs(Get(g1, "symmetry_type", PyNone), valid_symmetries)
            THEN SetKey(g1, "symmetry_type", PyStr("rotational")) ELSE g1
      g3 == IF ~ValidComplexity(Get(g2, "complexity", PyInt(5)))
            THEN SetKey(g2, "complexity", PyInt(5)) ELSE g2
      g4 == IF ~ValidCount(Get(g3, "suggested_count", PyInt(8)))
            THEN SetKey(g3, "suggested_count", PyInt(8)) ELSE g3
      g5 == IF Get(g4, "key_elements", PyNone).t # "list"
            THEN SetKey(g4, "key_elements", PyList(<<"center", "symmetry", "balance">>)) ELSE g4
      g6 == IF Get(g5, "drawing_instructions", PyNone).t # "list"
            THEN SetKey(g5, "drawing_instructions",
                        PyList(<<"Start from center", "Create symmetric elements",
                                 "Connect with flowing lines">>))
            ELSE g5
  IN  g6

(***************************************************************************)
(* _analyze_prompt                                                         *)
(***************************************************************************)

\* Strings are sequences of one-character strings, so that 'keyword in prompt' is a
\* substring test and the regular expression scans characters.

\* pattern_keywords, in the dict's insertion order
pattern_keywords ==
  <<
     [key |-> "flower",
      words |-> <<<<"f", "l", "o", "w", "e", "r">>,
                  <<"p", "e", "t", "a", "l">>,
                  <<"b", "l", "o", "o", "m">>,
                  <<"f", "l", "o", "r", "a", "l">>>>],
     [key |-> "lotus",
      words |-> <<<<"l", "o", "t", "u", "s">>,
                  <<"p", "a", "d", "m", "a">>>>],
     [key |-> "star",
      words |-> <<<<"s", "t", "a", "r">>,
                  <<"s", "t", "e", "l", "l", "a", "r">>,
                  <<"p", "o", "i", "n", "t", "e", "d">>>>],
     [key |-> "diamond",
      words |-> <<<<"d", "i", "a", "m", "o", "n", "d">>,
                  <<"r", "h", "o", "m", "b", "u", "s">>>>],
     [key |-> "spiral",
      words |-> <<<<"s", "p", "i", "r", "a", "l">>,
                  <<"s", "w", "i", "r", "l">>,
                  <<"c", "o", "i", "l">>>>],
     [key |-> "mandala",
      words |-> <<<<"m", "a", "n", "d", "a", "l", "a">>,
                  <<"c", "i", "r", "c", "u", "l", "a", "r">>,
                  <<"r", "a", "d", "i", "a", "l">>>>],
     [key |-> "geometric",
      words |-> <<<<"g", "e", "o", "m", "e", "t", "r", "i", "c">>,
                  <<"s", "q", "u", "a", "r", "e">>,
                  <<"t", "r", "i", "a", "n", "g", "l", "e">>,
                  <<"p", "o", "l", "y", "g", "o", "n">>>>],
     [key |-> "traditional",
      words |-> <<<<"t", "r", "a", "d", "i", "t", "i", "o", "n", "a", "l">>,
                  <<"c", "l", "a", "s", "s", "i", "c", "a", "l">>,
                  <<"a", "n", "c", "i", "e", "n", "t">>>>]
  >>

\* symmetry_keywords, in the dict's insertion order
symmetry_keywords ==
  <<
     [key |-> "rotational",
      words |-> <<<<"r", "o", "t", "a", "t", "i", "o", "n", "a", "l">>,
                  <<"r", "o", "t", "a", "t", "e">>,
                  <<"s", "p", "i", "n", "n", "i", "n", "g">>,
                  <<"r", "a", "d", "i", "a", "l">>>>],
     [key |-> "bilateral",
      words |-> <<<<"b", "i", "l", "a", "t", "e", "r", "a", "l">>,
                  <<"m", "i", "r", "r", "o", "r">>,
                  <<"s", "y", "m", "m", "e", "t", "r", "i", "c">>>>],
     [key |-> "point",
      words |-> <<<<"p", "o", "i", "n", "t">>,
                  <<"c", "e", "n", "t", "r", "a", "l">>>>],
     [key |-> "none",
      words |-> <<<<"a", "s", "y", "m", "m", "e", "t", "r", "i", "c">>,
                  <<"i", "r", "r", "e", "g", "u", "l", "a", "r">>>>]
  >>

\* complexity_keywords, in the dict's insertion order
complexity_keywords ==
  <<
     [key |-> 1,
      words |-> <<<<"v", "e", "r", "y", " ", "s", "i", "m", "p", "l", "e">>,
                  <<"b", "a", "s", "i", "c">>,
                  <<"m", "i", "n", "i", "m", "a", "l">>>>],
     [key |-> 3,
      words |-> <<<<"s", "i", "m", "p", "l", "e">>,
                  <<"e", "a", "s", "y">>>>],
     [key |-> 5,
      words |-> <<<<"m", "e", "d", "i", "u", "m">>,
                  <<"m", "o", "d", "e", "r", "a", "t", "e">>>>],
     [key |-> 7,
      words |-> <<<<"c", "o", "m", "p", "l", "e", "x">>,
                  <<"d", "e", "t", "a", "i", "l", "e", "d">>,
                  <<"i", "n", "t", "r", "i", "c", "a", "t", "e">>>>],
     [key |-> 9,
      words |-> <<<<"v", "e", "r", "y", " ", "c", "o", "m", "p", "l", "e", "x">>,
                  <<"e", "l", "a", "b", "o", "r", "a", "t", "e">>,
                  <<"s", "o", "p", "h", "i", "s", "t", "i", "c", "a", "t", "e", "d">>>>]
  >>

\* str.lower() on the letters A-Z
UpperToLower ==
  [A |-> "a", B |-> "b", C |-> "c", D |-> "d", E |-> "e", F |-> "f", G |-> "g", H |-> "h", I |-> "i",
   J |-> "j", K |-> "k", L |-> "l", M |-> "m", N |-> "n", O |-> "o", P |-> "p", Q |-> "q", R |-> "r",
   S |-> "s", T |-> "t", U |-> "u", V |-> "v", W |-> "w", X |-> "x", Y |-> "y", Z |-> "z"]

Digits == <<"0", "1", "2", "3", "4", "5", "6", "7", "8", "9">>

\* The characters the regular expression class \w matches
WordChars ==
  {"a", "b", "c", "d", "e", "f", "g", "h", "i", "j", "k", "l", "m", "n", "o", "p",
   "q", "r", "s", "t", "u", "v", "w", "x", "y", "z", "A", "B", "C", "D", "E", "F",
   "G", "H", "I", "J", "K", "L", "M", "N", "O", "P", "Q", "R", "S", "T", "U", "V",
   "W", "X", "Y", "Z", "0", "1", "2", "3", "4", "5", "6", "7", "8", "9", "_"}


\* prompt.lower()
Lower(text) == [k \in 1..Len(text) |-> IF text[k] \in DOMAIN UpperToLower THEN UpperToLower[text[k]] ELSE text[k]]

\* keyword in text
Contains(text, keyword) ==
  \E i \in 0..(Len(text) - Len(keyword)) : SubSeq(text, i + 1, i + Len(keyword)) = keyword

\* any(keyword in text for keyword in words)
AnyKeyword(words, text) == \E k \in 1..Len(words) : Contains(text, words[k])

\* The key of the first table entry one of whose keywords occurs in the text
\* (the loop breaks there), or the default the analysis started with.
FirstMatch(table, text, default) ==
  LET hits == {k \in 1..Len(table) : AnyKeyword(table[k].words, text)}
  IN  IF hits = {} THEN default
      ELSE table[CHOOSE k \in hits : \A j \in hits : k <= j].key

IsDigit(c) == \E d \in 1..10 : Digits[d] = c

DigitValue(c) == (CHOOSE d \in 1..10 : Digits[d] = c) - 1

\* A match of \b(\d+)\b: the digits text[i..j] with no word character before
\* text[i] nor after text[j].
NumberAt(text, i, j) ==
  /\ i <= j
  /\ \A k \in i..j : IsDigit(text[k])
  /\ i = 1 \/ text[i - 1] \notin WordChars
  /\ j = Len(text) \/ text[j + 1] \notin WordChars

RECURSIVE ToInt(_, _, _)
\* int() of the digits text[i..j]
ToInt(text, i, j) == IF i > j THEN 0 ELSE ToInt(text, i, j - 1) * 10 + DigitValue(text[j])

\* numbers = re.findall(r'\b(\d+)\b', prompt); int(numbers[0]) if numbers else 8
FirstNumber(text) ==
  LET starts == {i \in 1..Len(text) : \E j \in i..Len(text) : NumberAt(text, i, j)}
  IN  IF starts = {} THEN 8
      ELSE LET i == CHOOSE a \in starts : \A b \in starts : a <= b
               j == CHOOSE b \in i..Len(text) : NumberAt(text, i, b)
           IN  ToInt(text, i, j)

analyze_prompt(prompt) ==
  LET prompt_lower == Lower(prompt)
  IN  [pattern_type |-> PyStr(FirstMatch(pattern_keywords, prompt_lower, "geometric")),
       symmetry_type |-> PyStr(FirstMatch(symmetry_keywords, prompt_lower, "bilateral")),
       complexity |-> PyInt(FirstMatch(complexity_keywords, prompt_lower, 5)),
       elements |-> PyList(<<>>),
       style |-> PyStr("traditional"),
       special_features |-> PyList(<<>>),
       count |-> PyInt(FirstNumber(prompt))]

(***************************************************************************)
(* kolam_editor.KolamEditor and the hand-over from the generator page      *)
(***************************************************************************)

\* A dot of the editor is a pair of numbers.  Python compares 3.0 and 3 equal, so an exact
\* float is kept as its integer.  The floats i * cos(radians(angle)), i * sin(radians(angle))
\* are inexact at 90, 180 and 270 degrees (cos(radians(90)) is 6.1e-17, not 0): such a dot
\* equals no grid point and is kept as its nearest integers together with the angle.
PointEq(p, d) == Len(p) = Len(d) /\ p = d

\* p in dots
PointIn(p, dots) == \E k \in 1..Len(dots) : PointEq(p, dots[k])

\* _generate_grid_points: rows i, columns j, x = start + j, y = start + i with
\* start = -(grid_size - 1) / 2, whole for the odd grid sizes the editor offers
generate_grid_points(grid_size) ==
  [k \in 1..(grid_size * grid_size) |->
     <<((k - 1) % grid_size) - ((grid_size - 1) \div 2),
       ((k - 1) \div grid_size) - ((grid_size - 1) \div 2)>>]

\* _add_random_dot on the list self.dots: the first grid point not in the list is appended.
add_random_dot(dots, grid_size, grid_points) ==
  IF Len(dots) < grid_size * grid_size /\ \E k \in 1..Len(grid_points) : ~PointIn(grid_points[k], dots)
  THEN Append(dots, SelectSeq(grid_points, LAMBDA q : ~PointIn(q, dots))[1])
  ELSE dots

\* (i * cos(radians(angle)), i * sin(radians(angle)))
SymmetricDot(i, angle) ==
  IF angle = 0 THEN <<i, 0>>
  ELSE IF angle = 90 THEN <<0, i, 90>>
  ELSE IF angle = 180 THEN <<-i, 0, 180>>
  ELSE <<0, -i, 270>>

\* _create_symmetric_pattern on the list self.dots: the center and, for i in
\* range(1, grid_size // 2), the four dots at 0, 90, 180 and 270 degrees are appended.
create_symmetric_pattern(dots, grid_size) ==
  IF grid_size >= 5
  THEN dots \o <<<<0, 0>>>> \o
       Concat([i \in 1..(grid_size \div 2 - 1) |->
                 <<SymmetricDot(i, 0), SymmetricDot(i, 90), SymmetricDot(i, 180), SymmetricDot(i, 270)>>])
  ELSE dots

\* The connection dict _connect_random_dots appends and the hand-over builds
LineConnection(start_dot, end_dot) == [start |-> start_dot, end |-> end_dot, type |-> "line"]

\* [{'start': conn[0], 'end': conn[1], 'type': 'line'} for conn in pattern.connections]
ConnectionDicts(connections) ==
  [k \in 1..Len(connections) |-> LineConnection(connections[k][1], connections[k][2])]

\* The list objects of the session, by the name of the attribute that first held them.
\* "editor.dots" and "editor.connections" are the lists the editor made itself, in
\* __init__ or on Clear Canvas (each a new empty list; the one before it is dropped).
ListObjects ==
  {"pattern.dots", "pattern.connections", "editor_pattern.connections", "editor.dots",
   "editor.connections"}

\* No list object holds anything.
EmptyHeap == [l \in ListObjects |-> <<>>]

\* st.session_state without the key 'editor_pattern'
NoEditorPattern == [k \in {} |-> [dots |-> "", connections |-> "", grid_size |-> 0, pattern_type |-> ""]]

\* KolamEditor.__init__: grid_size 7, dots and connections two new empty lists
NewKolamEditor == [grid_size |-> 7, dots |-> "editor.dots", connections |-> "editor.connections"]

\* create_editor_interface, the top: with 'editor_pattern' in the session state the editor
\* takes the lists the entry names (no copy is made) and the entry is deleted.
LoadedEditor(ed, state) ==
  IF "editor_pattern" \in DOMAIN state
  THEN [ed EXCEPT !.dots = state["editor_pattern"].dots,
                  !.connections = state["editor_pattern"].connections]
  ELSE ed

(***************************************************************************)
(* State                                                                   *)
(***************************************************************************)

VARIABLES
  pc,        \* "call": the operation is about to run; "done": it has returned;
             \* "transferred": the returned pattern has been handed to the editor
  op,        \* the entry point exercised: "synth", "unvalidated", "validate", "analyze",
             \* "generate", "page" or "editor"
  request,   \* the PatternRequest the caller formed
  passed,    \* the dict as it was handed to _create_pattern_from_analysis
  analysis,  \* the same dict object as the call left it
  result,    \* what _create_pattern_from_analysis gave: the pattern or the exception
  raw,       \* the guidance record as it was handed to _validate_ai_guidance
  guidance,  \* the record _validate_ai_guidance returned (the same dict, sanitized)
  call,      \* generate_kolam_from_prompt's inputs: prompt, grid_size, self.model, the model's reply
  response,  \* the dict generate_kolam_from_prompt returned: success or error
  form,      \* the widgets of the generator page: prompt, grid size and the advanced options
  heap,      \* the contents of the list objects the pattern and the editor hold
  session_state, \* st.session_state: the key 'editor_pattern' when a pattern is handed over
  editor,    \* st.session_state.editor: its grid_size and the lists self.dots, self.connections name
  runs       \* the number of runs of the editor page so far

\* The state of the Streamlit pages
pageVars == <<form, heap, session_state, editor, runs>>

vars == <<pc, op, request, passed, analysis, result, raw, guidance, call, response, pageVars>>

\* Largest grid size and element count of the requests explored.
MaxGrid == 9

MaxCount == 16

\* The odd grid sizes from 3 on
GridSizes == {g \in 3..MaxGrid : g % 2 = 1}

\* An archetype name no template is registered under.
UnknownArchetype == "blorp"

\* The symmetry labels the explored requests carry.
RequestSymmetries == {"rotational", "none"}

\* Largest grid size of the requests explored for the archetypes of WideArchetypes.
MaxWideGrid == 19

\* The odd grid sizes above MaxGrid
WideGridSizes == {g \in (MaxGrid + 1)..MaxWideGrid : g % 2 = 1}

\* The archetypes also explored on the grids of WideGridSizes: the star, whose inner
\* ring leaves the centre from grid 11 on, and the spiral, whose walk is as long as the
\* grid lets it be.
WideArchetypes == {"star", "spiral"}

Requests ==
  [archetype : pattern_templates \cup {UnknownArchetype}, symmetry : RequestSymmetries,
   complexity : 1..9, elementCount : 3..MaxCount, gridSize : GridSizes]
  \cup
  [archetype : WideArchetypes, symmetry : RequestSymmetries,
   complexity : 1..9, elementCount : 3..MaxCount, gridSize : WideGridSizes]

NoForm == [prompt |-> <<>>, grid_size |-> 0, force_pattern |-> "", force_complexity |-> 0]

\* No page has been used: the form is empty and the editor holds nothing.
PagesIdle ==
  /\ form = NoForm
  /\ heap = EmptyHeap
  /\ session_state = NoEditorPattern
  /\ editor = NewKolamEditor
  /\ runs = 0

NoRequest == [archetype |-> "", symmetry |-> "", complexity |-> 0, elementCount |-> 0, gridSize |-> 0]

\* The analysis dict that carries a request.
AnalysisOf(r) ==
  [pattern_type |-> PyStr(r.archetype), symmetry_type |-> PyStr(r.symmetry),
   complexity |-> PyInt(r.complexity), count |-> PyInt(r.elementCount)]

\* The empty dict {}
EmptyDict == [k \in {} |-> PyNone]

NoResult == [exc |-> "", pattern |-> NoPattern, analysis |-> EmptyDict]

NoCall == [prompt |-> <<>>, grid_size |-> 0, model |-> FALSE, reply |-> [kind |-> "", guidance |-> EmptyDict]]

NoResponse == [success |-> FALSE, error |-> ""]

(***************************************************************************)
(* Synthesis: _create_pattern_from_analysis on a request                   *)
(***************************************************************************)

InitSynth ==
  /\ pc = "call"
  /\ op = "synth"
  /\ request \in Requests
  /\ passed = AnalysisOf(request)
  /\ analysis = passed
  /\ result = NoResult
  /\ raw = EmptyDict
  /\ guidance = EmptyDict
  /\ call = NoCall
  /\ response = NoResponse
  /\ PagesIdle

\* The call runs: the pattern (or the exception) comes back and the dict is
\* left as the generator left it.
Synthesize ==
  /\ pc = "call"
  /\ op = "synth"
  /\ result' = create_pattern_from_analysis(analysis, request.gridSize)
  /\ analysis' = result'.analysis
  /\ pc' = "done"
  /\ UNCHANGED <<op, request, passed, raw, guidance, call, response, pageVars>>

\* The caller asks again for the same request one complexity level higher.
RaiseComplexity ==
  /\ pc = "done"
  /\ op = "synth"
  /\ request.complexity < 9
  /\ request' = [request EXCEPT !.complexity = @ + 1]
  /\ passed' = AnalysisOf(request')
  /\ result' = create_pattern_from_analysis(passed', request.gridSize)
  /\ analysis' = result'.analysis
  /\ UNCHANGED <<pc, op, raw, guidance, call, response, pageVars>>

NextSynth == Synthesize \/ RaiseComplexity

SpecSynth == InitSynth /\ [][NextSynth]_vars

(***************************************************************************)
(* Synthesis on a dict that did not pass the validator                     *)
(***************************************************************************)

\* _create_pattern_from_analysis takes whatever dict it is handed.  The complexity
\* values next to the range 1..9 on either side:
UnvalidatedComplexities == {-1, 0, 10, 11}

\* The archetypes whose generator derives a modulus or a step from complexity.
DivisorArchetypes == {"diamond", "mandala", "geometric"}

UnvalidatedRequests ==
  [archetype : DivisorArchetypes, symmetry : RequestSymmetries,
   complexity : UnvalidatedComplexities, elementCount : 3..MaxCount, gridSize : GridSizes]

InitUnvalidated ==
  /\ pc = "call"
  /\ op = "unvalidated"
  /\ request \in UnvalidatedRequests
  /\ passed = AnalysisOf(request)
  /\ analysis = passed
  /\ result = NoResult
  /\ raw = EmptyDict
  /\ guidance = EmptyDict
  /\ call = NoCall
  /\ response = NoResponse
  /\ PagesIdle

\* The call runs on the dict as it is.
SynthesizeUnvalidated ==
  /\ pc = "call"
  /\ op = "unvalidated"
  /\ result' = create_pattern_from_analysis(analysis, request.gridSize)
  /\ analysis' = result'.analysis
  /\ pc' = "done"
  /\ UNCHANGED <<op, request, passed, raw, guidance, call, response, pageVars>>

NextUnvalidated == SynthesizeUnvalidated

SpecUnvalidated == InitUnvalidated /\ [][NextUnvalidated]_vars

(***************************************************************************)
(* Validation: _validate_ai_guidance on a raw guidance record              *)
(***************************************************************************)

\* What a model reply may carry under each key; "missing" leaves the key out.
RawInts == {-5, 0, 1, 2, 3, 5, 8, 9, 10, 16, 17, 99}

RawPatternTypes == {PyStr("flower"), PyStr("star"), PyStr("traditional"), PyStr("not-a-type"), PyInt(99)}

RawSymmetries ==
  {PyStr("rotational"), PyStr("bilateral"), PyStr("point"), PyStr("radial"), PyStr("none"),
   PyStr("spinning")}

RawNumbers == {PyInt(n) : n \in RawInts} \cup {PyStr("7"), PyOther}

RawLists == {PyList(<<"center_dot", "petals">>), PyStr("petals")}

Missing == [t |-> "missing", v |-> 0]

\* The dict holding the keys whose choice is not Missing.
DictOf(choice) == [k \in {key \in DOMAIN choice : choice[key] # Missing} |-> choice[k]]

RawGuidance ==
  {DictOf(choice) : choice \in
     [pattern_type : RawPatternTypes \cup {Missing}, symmetry_type : RawSymmetries \cup {Missing},
      complexity : RawNumbers \cup {Missing}, suggested_count : RawNumbers \cup {Missing},
      key_elements : RawLists \cup {Missing}, drawing_instructions : RawLists \cup {Missing}]}

InitValidate ==
  /\ pc = "call"
  /\ op = "validate"
  /\ raw \in RawGuidance
  /\ guidance = raw
  /\ request = NoRequest
  /\ passed = EmptyDict
  /\ analysis = EmptyDict
  /\ result = NoResult
  /\ call = NoCall
  /\ response = NoResponse
  /\ PagesIdle

Validate ==
  /\ pc = "call"
  /\ op = "validate"
  /\ guidance' = validate_ai_guidance(guidance)
  /\ pc' = "done"
  /\ UNCHANGED <<op, request, passed, analysis, result, raw, call, response, pageVars>>

NextValidate == Validate

SpecValidate == InitValidate /\ [][NextValidate]_vars

(***************************************************************************)
(* Generation: generate_kolam_from_prompt                                  *)
(***************************************************************************)

\* The prompts explored: the example prompts offered by the interface, then prompts whose
\* first number is outside 3..16 or is not a number of its own.
Prompts ==
  {<<"S", "i", "m", "p", "l", "e", " ", "f", "l", "o", "w", "e", "r", " ", "w", "i", "t", "h", " ", "6", " ", "p", "e", "t", "a", "l", "s">>,
   <<"C", "o", "m", "p", "l", "e", "x", " ", "l", "o", "t", "u", "s", " ", "w", "i", "t", "h", " ", "r", "o", "t", "a", "t", "i", "o", "n", "a", "l", " ", "s", "y", "m", "m", "e", "t", "r", "y">>,
   <<"S", "t", "a", "r", " ", "p", "a", "t", "t", "e", "r", "n", " ", "w", "i", "t", "h", " ", "8", " ", "p", "o", "i", "n", "t", "s">>,
   <<"D", "i", "a", "m", "o", "n", "d", " ", "g", "e", "o", "m", "e", "t", "r", "i", "c", " ", "p", "a", "t", "t", "e", "r", "n">>,
   <<"T", "r", "a", "d", "i", "t", "i", "o", "n", "a", "l", " ", "s", "p", "i", "r", "a", "l", " ", "d", "e", "s", "i", "g", "n">>,
   <<"M", "a", "n", "d", "a", "l", "a", " ", "w", "i", "t", "h", " ", "i", "n", "t", "r", "i", "c", "a", "t", "e", " ", "d", "e", "t", "a", "i", "l", "s">>,
   <<"P", "u", "l", "l", "i", " ", "k", "o", "l", "a", "m", " ", "w", "i", "t", "h", " ", "5", "x", "5", " ", "g", "r", "i", "d">>,
   <<"S", "i", "k", "k", "u", " ", "k", "o", "l", "a", "m", " ", "w", "i", "t", "h", " ", "f", "l", "o", "w", "i", "n", "g", " ", "l", "i", "n", "e", "s">>,
   <<"l", "o", "t", "u", "s", " ", "w", "i", "t", "h", " ", "2", " ", "l", "e", "a", "v", "e", "s">>,
   <<"s", "t", "a", "r", " ", "w", "i", "t", "h", " ", "1", "7", " ", "p", "o", "i", "n", "t", "s">>,
   <<"m", "a", "n", "d", "a", "l", "a", " ", "0">>,
   <<"b", "a", "s", "i", "c", " ", "f", "l", "o", "w", "e", "r", " ", "1", "2", "a", " ", "4">>}

\* What self.model.generate_content may come back with: an exception ("error"),
\* text without a JSON object ("nojson"), an object json.loads rejects
\* ("badjson"), or an object ("json") with any of the guidance keys.
ReplyGuidance ==
  {DictOf(choice) : choice \in
     [pattern_type : {PyStr("star"), PyStr("traditional"), PyStr("not-a-type"), Missing},
      symmetry_type : {PyStr("none"), Missing},
      complexity : {PyInt(9), PyInt(99), PyStr("7"), Missing},
      suggested_count : {PyInt(12), PyInt(2), PyOther, Missing}]}

Replies ==
  {[kind |-> k, guidance |-> EmptyDict] : k \in {"error", "nojson", "badjson"}} \cup
  {[kind |-> "json", guidance |-> g] : g \in ReplyGuidance}

\* _get_ai_guidance: the validated guidance of a parsed reply, {} otherwise.
get_ai_guidance(reply) ==
  IF reply.kind = "json" THEN validate_ai_guidance(reply.guidance) ELSE EmptyDict

InitGenerate ==
  /\ pc = "call"
  /\ op = "generate"
  /\ \E prompt \in Prompts, grid_size \in GridSizes, model \in BOOLEAN, reply \in Replies :
       /\ model = FALSE => reply = [kind |-> "error", guidance |-> EmptyDict]
       /\ call = [prompt |-> prompt, grid_size |-> grid_size, model |-> model, reply |-> reply]
  /\ request = NoRequest
  /\ passed = EmptyDict
  /\ analysis = EmptyDict
  /\ result = NoResult
  /\ raw = EmptyDict
  /\ guidance = EmptyDict
  /\ response = NoResponse
  /\ PagesIdle

\* The whole of generate_kolam_from_prompt: analyse the prompt, merge the
\* guidance when a model is configured, create the pattern; an exception
\* anywhere becomes the error record.
Generate ==
  /\ pc = "call"
  /\ op = "generate"
  /\ raw' = IF call.model THEN call.reply.guidance ELSE raw
  \* ai_guidance = self._get_ai_guidance(prompt, pattern_analysis)
  /\ guidance' = IF call.model THEN get_ai_guidance(call.reply) ELSE EmptyDict
  \* pattern_analysis = self._analyze_prompt(prompt); pattern_analysis.update(ai_guidance)
  /\ passed' = IF call.model THEN Update(analyze_prompt(call.prompt), guidance')
                ELSE analyze_prompt(call.prompt)
  /\ result' = create_pattern_from_analysis(passed', call.grid_size)
  /\ analysis' = result'.analysis
  /\ response' = IF result'.exc = "" THEN [success |-> TRUE, error |-> ""]
                 ELSE [success |-> FALSE, error |-> result'.exc]
  /\ pc' = "done"
  /\ UNCHANGED <<op, request, call, pageVars>>

NextGenerate == Generate

SpecGenerate == InitGenerate /\ [][NextGenerate]_vars

(***************************************************************************)
(* Analysis: _analyze_prompt on a prompt built around one keyword          *)
(***************************************************************************)

\* Every keyword of a table
KeywordsOf(table) ==
  UNION {{table[k].words[j] : j \in 1..Len(table[k].words)} : k \in 1..Len(table)}

\* What may stand before and after the keyword: nothing, or a few words
PromptFrames ==
  {<<<<>>, <<>>>>,
   <<<<>>, <<" ", "k", "o", "l", "a", "m">>>>,
   <<<<"A", " ">>, <<" ", "k", "o", "l", "a", "m", " ", "w", "i", "t", "h", " ", "6", " ", "d", "o", "t", "s">>>>}

\* The prompts explored: every keyword of the three tables, alone and within the frames.
KeywordPrompts ==
  {frame[1] \o word \o frame[2] :
     word \in KeywordsOf(pattern_keywords) \cup KeywordsOf(symmetry_keywords) \cup KeywordsOf(complexity_keywords),
     frame \in PromptFrames}

InitAnalyze ==
  /\ pc = "call"
  /\ op = "analyze"
  /\ \E prompt \in KeywordPrompts :
       call = [prompt |-> prompt, grid_size |-> 0, model |-> FALSE,
               reply |-> [kind |-> "", guidance |-> EmptyDict]]
  /\ request = NoRequest
  /\ passed = EmptyDict
  /\ analysis = EmptyDict
  /\ result = NoResult
  /\ raw = EmptyDict
  /\ guidance = EmptyDict
  /\ response = NoResponse
  /\ PagesIdle

\* _analyze_prompt runs on the prompt and returns the analysis dict.
Analyze ==
  /\ pc = "call"
  /\ op = "analyze"
  /\ analysis' = analyze_prompt(call.prompt)
  /\ pc' = "done"
  /\ UNCHANGED <<op, request, passed, result, raw, guidance, call, response, pageVars>>

NextAnalyze == Analyze

SpecAnalyze == InitAnalyze /\ [][NextAnalyze]_vars

(***************************************************************************)
(* The generator page: the button "Generate Kolam"                         *)
(***************************************************************************)

\* The choice "Auto (AI decides)" of the selectbox Force Pattern Type
AutoPattern == "Auto (AI decides)"

\* The other options of the selectbox, each with its spelling
ForcePatternOptions ==
  <<
     [name |-> "flower", text |-> <<"f", "l", "o", "w", "e", "r">>],
     [name |-> "lotus", text |-> <<"l", "o", "t", "u", "s">>],
     [name |-> "star", text |-> <<"s", "t", "a", "r">>],
     [name |-> "diamond", text |-> <<"d", "i", "a", "m", "o", "n", "d">>],
     [name |-> "spiral", text |-> <<"s", "p", "i", "r", "a", "l">>],
     [name |-> "mandala", text |-> <<"m", "a", "n", "d", "a", "l", "a">>],
     [name |-> "geometric", text |-> <<"g", "e", "o", "m", "e", "t", "r", "i", "c">>]
  >>

\* The grid sizes of the page's selectbox that the runs explore (it offers 5, 7, 9, 11, 13).
PageGridSizes == {5, 7, 9}

\* The forms explored: a prompt, a grid size, the selectbox and the complexity slider (1..9).
Forms ==
  [prompt : Prompts, grid_size : PageGridSizes,
   force_pattern : {AutoPattern} \cup {ForcePatternOptions[k].name : k \in 1..Len(ForcePatternOptions)},
   force_complexity : 1..9]

\* The spelling of the option chosen
ForcePatternText(name) ==
  ForcePatternOptions[CHOOSE k \in 1..Len(ForcePatternOptions) : ForcePatternOptions[k].name = name].text

\* advanced_prompt: the prompt, then " (pattern type: T)" unless the selectbox is on Auto,
\* then " (complexity level: v)", which is appended always.
AdvancedPrompt(f) ==
  f.prompt
  \o (IF f.force_pattern # AutoPattern
      THEN <<" ", "(", "p", "a", "t", "t", "e", "r", "n", " ", "t", "y", "p", "e", ":", " ">> \o ForcePatternText(f.force_pattern) \o <<")">>
      ELSE <<>>)
  \o <<" ", "(", "c", "o", "m", "p", "l", "e", "x", "i", "t", "y", " ", "l", "e", "v", "e", "l", ":", " ">> \o <<Digits[f.force_complexity + 1]>> \o <<")">>

\* The page with its form filled in and no AI model configured.
InitPage ==
  /\ pc = "call"
  /\ op = "page"
  /\ form \in Forms
  /\ request = NoRequest
  /\ passed = EmptyDict
  /\ analysis = EmptyDict
  /\ result = NoResult
  /\ raw = EmptyDict
  /\ guidance = EmptyDict
  /\ call = NoCall
  /\ response = NoResponse
  /\ heap = EmptyHeap
  /\ session_state = NoEditorPattern
  /\ editor = NewKolamEditor
  /\ runs = 0

\* The button "Generate Kolam": the advanced prompt is built and handed to
\* generate_kolam_from_prompt, which without a model analyses it and creates the pattern.
GenerateKolam ==
  /\ pc = "call"
  /\ op = "page"
  /\ call' = [prompt |-> AdvancedPrompt(form), grid_size |-> form.grid_size, model |-> FALSE,
              reply |-> [kind |-> "error", guidance |-> EmptyDict]]
  /\ passed' = analyze_prompt(call'.prompt)
  /\ result' = create_pattern_from_analysis(passed', form.grid_size)
  /\ analysis' = result'.analysis
  /\ response' = IF result'.exc = "" THEN [success |-> TRUE, error |-> ""]
                 ELSE [success |-> FALSE, error |-> result'.exc]
  /\ pc' = "done"
  /\ UNCHANGED <<op, request, raw, guidance, pageVars>>

NextPage == GenerateKolam

SpecPage == InitPage /\ [][NextPage]_vars

(***************************************************************************)
(* Editing: "Edit in Editor" and the editor page                           *)
(***************************************************************************)

\* The patterns handed to the editor in the runs explored: small ones, so that the
\* choices of Connect Random Dots stay few.
EditorRequests ==
  [archetype : {"flower", "diamond"}, symmetry : {"none"}, complexity : {1}, elementCount : {3, 4},
   gridSize : {5}]

\* Of the grid sizes 3, 5, 7, 9, 11 the editor's selectbox offers, the two smallest.
EditorGridSizes == {3, 5}

\* Largest number of runs of the editor page explored.
MaxRuns == 2

\* The generator page holds a generated pattern; its two lists are objects of the heap.
InitEditor ==
  /\ pc = "done"
  /\ op = "editor"
  /\ request \in EditorRequests
  /\ passed = AnalysisOf(request)
  /\ result = create_pattern_from_analysis(passed, request.gridSize)
  /\ analysis = result.analysis
  /\ raw = EmptyDict
  /\ guidance = EmptyDict
  /\ call = NoCall
  /\ response = [success |-> TRUE, error |-> ""]
  /\ heap = [EmptyHeap EXCEPT !["pattern.dots"] = result.pattern.dots,
                              !["pattern.connections"] = result.pattern.connections]
  /\ session_state = NoEditorPattern
  /\ editor = NewKolamEditor
  /\ runs = 0
  /\ form = NoForm

\* The button "Edit in Editor": st.session_state['editor_pattern'] gets pattern.dots
\* itself and a new list of connection dicts.
EditInEditor ==
  /\ op = "editor"
  /\ pc = "done"
  /\ session_state' =
       ("editor_pattern" :> [dots |-> "pattern.dots", connections |-> "editor_pattern.connections",
                             grid_size |-> result.pattern.grid_size,
                             pattern_type |-> result.pattern.pattern_type])
  /\ heap' = [heap EXCEPT !["editor_pattern.connections"] = ConnectionDicts(heap["pattern.connections"])]
  /\ pc' = "transferred"
  /\ UNCHANGED <<op, request, passed, analysis, result, raw, guidance, call, response, form, editor,
                 runs>>

\* Every run of the editor page starts the same way: a handed-over pattern is loaded
\* and its entry deleted, then self.grid_size is set from the selectbox.
EditorPageRuns(grid_size) ==
  /\ op = "editor"
  /\ runs < MaxRuns
  /\ runs' = runs + 1
  /\ session_state' = NoEditorPattern
  /\ UNCHANGED <<pc, op, request, passed, analysis, result, raw, guidance, call, response, form>>

\* The page is opened or redrawn with no button pressed.
OpenEditor ==
  \E grid_size \in EditorGridSizes :
    /\ EditorPageRuns(grid_size)
    /\ editor' = [LoadedEditor(editor, session_state) EXCEPT !.grid_size = grid_size]
    /\ heap' = heap

\* The button "Add Random Dot"
AddRandomDot ==
  \E grid_size \in EditorGridSizes :
    /\ EditorPageRuns(grid_size)
    /\ editor' = [LoadedEditor(editor, session_state) EXCEPT !.grid_size = grid_size]
    /\ heap' = [heap EXCEPT ![editor'.dots] = add_random_dot(@, grid_size, generate_grid_points(grid_size))]

\* _connect_random_dots: what self.connections may be afterwards.  random.choice picks
\* the start dot and then the end dot among the dots that differ from it; with fewer
\* than two dots nothing happens, and when no dot differs from the start dot
\* random.choice([]) raises IndexError before anything is appended.
connect_random_dots(dots, connections) ==
  IF Len(dots) >= 2
  THEN {Append(connections, LineConnection(dots[pr[1]], dots[pr[2]])) :
          pr \in {pr \in (1..Len(dots)) \X (1..Len(dots)) : ~PointEq(dots[pr[2]], dots[pr[1]])}}
       \cup {connections : k \in {k \in 1..Len(dots) : \A j \in 1..Len(dots) : PointEq(dots[j], dots[k])}}
  ELSE {connections}

\* The button "Connect Random Dots"
ConnectRandomDots ==
  \E grid_size \in EditorGridSizes :
    /\ EditorPageRuns(grid_size)
    /\ editor' = [LoadedEditor(editor, session_state) EXCEPT !.grid_size = grid_size]
    /\ \E connections \in connect_random_dots(heap[editor'.dots], heap[editor'.connections]) :
         heap' = [heap EXCEPT ![editor'.connections] = connections]

\* The button "Create Symmetric Pattern"
CreateSymmetricPattern ==
  \E grid_size \in EditorGridSizes :
    /\ EditorPageRuns(grid_size)
    /\ editor' = [LoadedEditor(editor, session_state) EXCEPT !.grid_size = grid_size]
    /\ heap' = [heap EXCEPT ![editor'.dots] = create_symmetric_pattern(@, grid_size)]

\* The button "Clear Canvas": self.dots and self.connections become new empty lists.
ClearCanvas ==
  \E grid_size \in EditorGridSizes :
    /\ EditorPageRuns(grid_size)
    /\ editor' = [NewKolamEditor EXCEPT !.grid_size = grid_size]
    /\ heap' = [heap EXCEPT !["editor.dots"] = <<>>, !["editor.connections"] = <<>>]

NextEditor ==
  EditInEditor \/ OpenEditor \/ AddRandomDot \/ ConnectRandomDots \/ CreateSymmetricPattern \/ ClearCanvas

SpecEditor == InitEditor /\ [][NextEditor]_vars

(***************************************************************************)
(* The entry points together                                               *)
(***************************************************************************)

Init ==
  InitSynth \/ InitUnvalidated \/ InitValidate \/ InitAnalyze \/ InitGenerate \/ InitPage \/ InitEditor

Next ==
  \/ Synthesize \/ RaiseComplexity \/ SynthesizeUnvalidated \/ Validate \/ Analyze \/ Generate
  \/ GenerateKolam
  \/ EditInEditor \/ OpenEditor \/ AddRandomDot \/ ConnectRandomDots \/ CreateSymmetricPattern
  \/ ClearCanvas

Spec == Init /\ [][Next]_vars

(***************************************************************************)
(* Properties                                                              *)
(***************************************************************************)

\* The eight archetype names of a PatternRequest.
Archetypes == {"flower", "lotus", "star", "diamond", "spiral", "mandala", "geometric", "traditional"}

\* The symmetry classes of a PatternRequest.
SymmetryClasses == {"rotational", "bilateral", "point", "radial", "none"}

SynthDone == op = "synth" /\ pc = "done"

ValidateDone == op = "validate" /\ pc = "done"

GenerateDone == op = "generate" /\ pc = "done"

\* The dots and connections of the returned pattern.
Dots == result.pattern.dots

Connections == result.pattern.connections

\* 0 <= coordinate < gridSize on both axes
WithinGrid(p, gridSize) == p[1] \in 0..(gridSize - 1) /\ p[2] \in 0..(gridSize - 1)

\* An integer in lo..hi
IntIn(value, lo, hi) == value.t = "int" /\ lo <= value.v /\ value.v <= hi

\* The same Python value
Same(a, b) == a.t = b.t /\ a.v = b.v

\* C1: for every archetype generator, odd gridSize >= 3, complexity 1..9 and element
\* count >= 3, each dot and each endpoint of each connection of the returned pattern
\* has both coordinates in [0, gridSize).
C1_CoordinatesInGrid ==
  (SynthDone /\ request.archetype \in Archetypes /\ result.exc = "") =>
    /\ \A k \in 1..Len(Dots) : WithinGrid(Dots[k], request.gridSize)
    /\ \A k \in 1..Len(Connections) :
         WithinGrid(Connections[k][1], request.gridSize) /\ WithinGrid(Connections[k][2], request.gridSize)

\* A lotus with its offset outer petals, one of them connected on the edge of the grid.
C1_Witness ==
  /\ SynthDone
  /\ request.archetype = "lotus"
  /\ request.complexity > 4
  /\ \E k \in 1..Len(Connections) :
       Connections[k][2][1] \in {0, request.gridSize - 1} \/ Connections[k][2][2] \in {0, request.gridSize - 1}

\* C2: synthesis is total: for every archetype name, known or unknown, odd gridSize >= 3,
\* complexity 1..9 and element count >= 3, _create_pattern_from_analysis returns a pattern
\* without raising, and generate_kolam_from_prompt returns success = True with a pattern,
\* never the error record.
C2_SynthesisTotal ==
  /\ SynthDone => (result.exc = "" /\ result.pattern.grid_size = request.gridSize)
  /\ GenerateDone => (response.success /\ response.error = "" /\ result.exc = ""
                      /\ result.pattern.grid_size = call.grid_size)

\* A star on the smallest grid whose connection loop indexed every outer and inner point.
C2_Witness ==
  /\ SynthDone
  /\ request.archetype = "star"
  /\ request.gridSize = 3
  /\ result.exc = ""
  /\ Len(Connections) >= 2 * request.elementCount

\* C3: for every archetype and valid request, the dots of the returned pattern contain
\* no (x, y) pair more than once, also when several candidates fall on the same cell.
C3_NoDuplicateDots ==
  (SynthDone /\ result.exc = "") =>
    \A i, j \in 1..Len(Dots) : Dots[i] = Dots[j] => i = j

\* A flower without intermediate, curve or ring points (so one connection per retained
\* petal candidate) that retained more candidates than it has petal dots.
C3_Witness ==
  /\ SynthDone
  /\ request.archetype = "flower"
  /\ request.complexity <= 3
  /\ Len(Dots) > 1
  /\ Len(Connections) > Len(Dots) - 1

\* C4: no generator emits a connection whose two endpoints are the same dot: every
\* connection (a, b) of every result has a # b.
C4_NoSelfConnection ==
  (SynthDone /\ request.archetype \in Archetypes /\ result.exc = "") =>
    \A k \in 1..Len(Connections) : Connections[k][1] # Connections[k][2]

\* C5: a request whose archetype is not one of the eight names is dispatched to the
\* geometric generator: pattern_type is "geometric" and the dots are exactly the points
\* (i, j) with i, j in {0, step, 2*step, ...} below gridSize, step = max(1, (10 - complexity) // 3).
C5_UnknownFallsBackToGeometric ==
  (SynthDone /\ request.archetype \notin Archetypes) =>
    LET third == (10 - request.complexity) \div 3
        step == IF third >= 1 THEN third ELSE 1
        lattice == {p \in (0..(request.gridSize - 1)) \X (0..(request.gridSize - 1)) :
                      p[1] % step = 0 /\ p[2] % step = 0}
    IN  /\ result.exc = ""
        /\ result.pattern.pattern_type = "geometric"
        /\ {Dots[k] : k \in 1..Len(Dots)} = lattice

\* An unknown archetype answered with a grid sampled at a step above 1.
C5_Witness ==
  /\ SynthDone
  /\ request.archetype = UnknownArchetype
  /\ request.complexity <= 4
  /\ Len(Dots) > 1
  /\ Len(Dots) < request.gridSize * request.gridSize

\* C6: _validate_ai_guidance coerces invalid values: a pattern_type outside the eight
\* names becomes one of them; a complexity that is present and not an integer in [1,9]
\* becomes 5; a suggested_count that is present and not an integer in [3,16] becomes 8;
\* values already valid are left unchanged.
C6_GuidanceCoerced ==
  ValidateDone =>
    LET pattern_type == Get(raw, "pattern_type", PyNone)
    IN  /\ IF InStrs(pattern_type, Archetypes) THEN Same(guidance.pattern_type, pattern_type)
           ELSE InStrs(guidance.pattern_type, Archetypes)
        /\ "complexity" \in DOMAIN raw =>
             IF IntIn(raw.complexity, 1, 9) THEN Same(guidance.complexity, raw.complexity)
             ELSE Same(guidance.complexity, PyInt(5))
        /\ "suggested_count" \in DOMAIN raw =>
             IF IntIn(raw.suggested_count, 3, 16) THEN Same(guidance.suggested_count, raw.suggested_count)
             ELSE Same(guidance.suggested_count, PyInt(8))

\* The record {pattern_type: "not-a-type", complexity: 99, suggested_count: -5}, validated.
C6_Witness ==
  /\ ValidateDone
  /\ raw = [pattern_type |-> PyStr("not-a-type"), complexity |-> PyInt(99), suggested_count |-> PyInt(-5)]
  /\ guidance.complexity = PyInt(5)
  /\ guidance.suggested_count = PyInt(8)

\* C7: for every raw guidance record, also one with any subset of the keys missing, the
\* record returned by _validate_ai_guidance contains pattern_type, symmetry_type,
\* complexity, suggested_count, key_elements and drawing_instructions, each schema-valid.
C7_FullyPopulated ==
  ValidateDone =>
    /\ {"pattern_type", "symmetry_type", "complexity", "suggested_count", "key_elements",
        "drawing_instructions"} \subseteq DOMAIN guidance
    /\ InStrs(guidance.pattern_type, Archetypes)
    /\ InStrs(guidance.symmetry_type, SymmetryClasses)
    /\ IntIn(guidance.complexity, 1, 9)
    /\ IntIn(guidance.suggested_count, 3, 16)
    /\ guidance.key_elements.t = "list"
    /\ guidance.drawing_instructions.t = "list"

\* C8: _validate_ai_guidance replaces symmetry_type if and only if the supplied value is
\* not one of rotational, bilateral, point, radial, none; each of those five is returned
\* unchanged.
C8_SymmetryReplacedIffInvalid ==
  ValidateDone =>
    LET supplied == Get(raw, "symmetry_type", PyNone)
    IN  ~Same(guidance.symmetry_type, supplied) <=> ~InStrs(supplied, SymmetryClasses)

\* The element count the dispatched generator reads from the dict, where it reads one.
UsedCount(d) ==
  LET template == IF InStrs(d.pattern_type, Archetypes) THEN d.pattern_type.v ELSE "geometric"
  IN  IF template \in {"flower", "traditional"} THEN <<Get(d, "suggested_count", d.count)>>
      ELSE IF template \in {"lotus", "star", "mandala"} THEN <<d.count>>
      ELSE <<>>

\* C9: for every prompt, with or without a model configured, the analysis record that
\* generate_kolam_from_prompt passes to the archetype generator has pattern_type among the
\* eight names, complexity an integer in [1,9] and the element count the generator uses
\* an integer in [3,16].
C9_GeneratorInputValidated ==
  GenerateDone =>
    /\ InStrs(passed.pattern_type, Archetypes)
    /\ IntIn(passed.complexity, 1, 9)
    /\ \A k \in 1..Len(UsedCount(passed)) : IntIn(UsedCount(passed)[k], 3, 16)

\* C10: with gridSize and element count fixed, the number of distinct dots at complexity
\* c + 1 is at least the number at complexity c, for every archetype and every c in 1..8.
C10_DotsGrowWithComplexity ==
  [][(SynthDone /\ request.archetype \in Archetypes
      /\ request' = [request EXCEPT !.complexity = @ + 1])
     => Cardinality({result'.pattern.dots[k] : k \in 1..Len(result'.pattern.dots)})
          >= Cardinality({Dots[k] : k \in 1..Len(Dots)})]_vars

\* C11: synthesis does not mutate its input: for every archetype, traditional included,
\* the record passed to _create_pattern_from_analysis has the same keys and values after
\* the call as before it.
C11_InputNotMutated ==
  SynthDone => (DOMAIN analysis = DOMAIN passed /\ \A k \in DOMAIN passed : analysis[k] = passed[k])

\* The pattern t of a traditional request has the geometry of the flower pattern f and a
\* label by which a caller tells the two apart.
SameGeometryOtherLabel(t, f) ==
  /\ t.dots = f.dots
  /\ t.connections = f.connections
  /\ \/ t.pattern_type # f.pattern_type
     \/ t.description # f.description
     \/ t.cultural_significance # f.cultural_significance

\* C12: a traditional request returns exactly the dots and connections the flower
\* generator returns for the same gridSize, complexity and element count, and the
\* returned pattern's labels still distinguish it from the result of a flower request.
C12_TraditionalIsLabelledFlower ==
  (SynthDone /\ request.archetype = "traditional") =>
    /\ result.exc = ""
    /\ SameGeometryOtherLabel(
         result.pattern,
         create_pattern_from_analysis(AnalysisOf([request EXCEPT !.archetype = "flower"]),
                                      request.gridSize).pattern)

\* The petal candidates of a flower request that fall inside the grid, in loop order:
\* the points at radius min(center - 1, max(2, 1 + complexity // 2)) and angle 2*pi*i/count.
RetainedPetals(r) ==
  SelectSeq([k \in 1..r.elementCount |->
               PolarPoint(r.gridSize \div 2,
                          Min(r.gridSize \div 2 - 1, Max(2, 1 + r.complexity \div 2)), 1,
                          r.elementCount, k - 1)],
            LAMBDA p : WithinGrid(p, r.gridSize))

\* The result is the center, the petals and one center->petal connection per petal.
CenterAndPetals(center, petals, dots, connections) ==
  /\ Cardinality({k \in 1..Len(dots) : dots[k] = center}) = 1
  /\ {dots[k] : k \in 1..Len(dots)} = {center} \cup {petals[k] : k \in 1..Len(petals)}
  /\ connections = [k \in 1..Len(petals) |-> <<center, petals[k]>>]

\* C14: a flower at complexity <= 5 (scenario grid 7, complexity 5, count 8) has the
\* center dot (gridSize // 2, gridSize // 2), at most elementCount petal dots, exactly one
\* center->petal connection per retained petal candidate and no other connection, and
\* no dot other than the center and the petal dots.
C14_FlowerUpToFive ==
  (SynthDone /\ request.archetype = "flower" /\ request.complexity <= 5) =>
    /\ result.exc = ""
    /\ Len(Dots) - 1 <= request.elementCount
    /\ CenterAndPetals(<<request.gridSize \div 2, request.gridSize \div 2>>,
                       RetainedPetals(request), Dots, Connections)

\* The scenario: grid 7, complexity 5, 8 petals, all of them retained and distinct.
C14_Witness ==
  /\ SynthDone
  /\ request.archetype = "flower"
  /\ request.gridSize = 7 /\ request.complexity = 5 /\ request.elementCount = 8
  /\ Len(Dots) = 9
  /\ Len(Connections) = 8
  /\ \E k \in 1..Len(Dots) : Dots[k] = <<3, 3>>

\* The zig-zag of a star: for each i the connections (inner[i-1 mod points], outer[i]) and
\* (outer[i], inner[i]), then the spoke (center, outer[i]) when spokes are drawn; stride is
\* the number of connections per point.
StarZigZag(center, points, outer, inner, stride, connections) ==
  /\ Len(connections) = stride * points
  /\ \A i \in 0..(points - 1) :
       /\ connections[stride * i + 1] = <<inner[((i + points - 1) % points) + 1], outer[i + 1]>>
       /\ connections[stride * i + 2] = <<outer[i + 1], inner[i + 1]>>
       /\ stride = 3 => connections[stride * i + 3] = <<center, outer[i + 1]>>

\* C15: a star with `points` points has, for each i in 0..points-1, the connection
\* (inner[i-1 mod points], outer[i]) followed by (outer[i], inner[i]); there are exactly
\* 2*points connections at complexity <= 6 and exactly 3*points at complexity > 6, one
\* center->outer spoke being added per outer point.
C15_StarZigZag ==
  (SynthDone /\ request.archetype = "star") =>
    /\ result.exc = ""
    /\ StarZigZag(<<request.gridSize \div 2, request.gridSize \div 2>>, request.elementCount,
                  [k \in 1..request.elementCount |->
                     PolarPoint(request.gridSize \div 2, request.gridSize \div 2 - 1, 1,
                                request.elementCount, k - 1)],
                  [k \in 1..request.elementCount |->
                     PolarHalfPoint(request.gridSize \div 2,
                                    Max(1, (request.gridSize \div 2 - 1) \div 2),
                                    request.elementCount, k - 1)],
                  IF request.complexity > 6 THEN 3 ELSE 2, Connections)

\* A three-pointed star on grid 11 with spokes: 9 connections, the first from the last
\* inner point (6, 4) to the outer point (9, 5), then on to the first inner point (6, 6),
\* then the spoke.
C15_Witness ==
  /\ SynthDone
  /\ request.archetype = "star"
  /\ request.gridSize = 11 /\ request.elementCount = 3 /\ request.complexity = 7
  /\ Len(Connections) = 9
  /\ Connections[1] = <<<<6, 4>>, <<9, 5>>>>
  /\ Connections[2] = <<<<9, 5>>, <<6, 6>>>>
  /\ Connections[3] = <<<<5, 5>>, <<9, 5>>>>

UnvalidatedDone == op = "unvalidated" /\ pc = "done"

\* C16: every modulus or divisor a generator derives from complexity (Diamond's
\* 10 - complexity, Mandala's (10 - complexity) // 2, Geometric's (10 - complexity) // 3)
\* is floored at 1 before use, so that no generator takes a modulo or divides by zero for
\* any integer complexity it can receive.
C16_DivisorsFloored ==
  UnvalidatedDone => result.exc = ""

\* The radii r of 1..R that a diamond of this complexity places a ring at.
DiamondRadii(R, complexity) ==
  {r \in 1..R : r % (10 - complexity) = 0 \/ r = R}

\* The four axis points at radius r and, when diagonal is set, the four diagonal points
\* at offset r // 2.
DiamondPoints(center, r, diagonal) ==
  {<<center, center - r>>, <<center, center + r>>, <<center - r, center>>, <<center + r, center>>}
  \cup
  (IF diagonal
   THEN {<<center + dx * (r \div 2), center + dy * (r \div 2)>> : dx \in {-1, 1}, dy \in {-1, 1}}
   ELSE {})

\* C17: with center = gridSize // 2 and R = center - 1, the dots of a diamond are exactly
\* the four axis points (center, center +- r), (center +- r, center) for every r in 1..R
\* with r % (10 - complexity) == 0 or r == R, plus, only when complexity > 6, the four
\* diagonal points (center +- r // 2, center +- r // 2) of each such r; the outermost ring
\* r == R is there for every complexity.
C17_DiamondDotSet ==
  (SynthDone /\ request.archetype = "diamond") =>
    /\ result.exc = ""
    /\ {Dots[k] : k \in 1..Len(Dots)} =
         UNION {DiamondPoints(request.gridSize \div 2, r, request.complexity > 6) :
                  r \in DiamondRadii(request.gridSize \div 2 - 1, request.complexity)}
    /\ request.gridSize >= 5 =>
         \E k \in 1..Len(Dots) : Dots[k] = <<request.gridSize \div 2, request.gridSize - 2>>

\* A diamond on grid 9 at complexity 7: the ring of radius 3 alone, with its diagonals
\* at offset 1.
C17_Witness ==
  /\ SynthDone
  /\ request.archetype = "diamond"
  /\ request.gridSize = 9 /\ request.complexity = 7
  /\ Len(Dots) = 8
  /\ \E k \in 1..Len(Dots) : Dots[k] = <<4, 7>>
  /\ \E k \in 1..Len(Dots) : Dots[k] = <<5, 3>>

\* C18: for any two distinct dots a, b of a diamond pattern, the unordered pair {a, b} is
\* among the connections if and only if their distance d satisfies 1 <= d <= 2.5 (squared
\* distance between 1 and 6).
C18_DiamondConnections ==
  (SynthDone /\ request.archetype = "diamond" /\ result.exc = "") =>
    \A i, j \in 1..Len(Dots) :
      i # j =>
        ((\E k \in 1..Len(Connections) :
            Connections[k] = <<Dots[i], Dots[j]>> \/ Connections[k] = <<Dots[j], Dots[i]>>)
         <=> (DistSq(Dots[i], Dots[j]) >= 1 /\ DistSq(Dots[i], Dots[j]) <= 6))

\* A diamond with two dots at distance 1, connected, and two dots further apart than
\* 2.5, not connected.
C18_Witness ==
  /\ SynthDone
  /\ request.archetype = "diamond"
  /\ \E k \in 1..Len(Connections) : DistSq(Connections[k][1], Connections[k][2]) = 1
  /\ \E i, j \in 1..Len(Dots) :
       /\ DistSq(Dots[i], Dots[j]) > 6
       /\ \A k \in 1..Len(Connections) :
            Connections[k] # <<Dots[i], Dots[j]>> /\ Connections[k] # <<Dots[j], Dots[i]>>

\* a and b are neighbours on the lattice of the given step: both coordinate differences
\* are 0 or step in size, not both 0.
LatticeNeighbours(step, a, b) ==
  /\ a # b
  /\ a[1] - b[1] \in {-step, 0, step}
  /\ a[2] - b[2] \in {-step, 0, step}

\* The connections are the neighbour pairs of the dots, each unordered pair once.
NeighbourPairsOnce(step, gridSize, dots, connections) ==
  /\ Cardinality({connections[k] : k \in 1..Len(connections)}) = Len(connections)
  /\ \A k \in 1..Len(connections) :
       /\ connections[k][1] \in dots /\ connections[k][2] \in dots
       /\ LatticeNeighbours(step, connections[k][1], connections[k][2])
       /\ <<connections[k][2], connections[k][1]>> \notin {connections[j] : j \in 1..Len(connections)}
  /\ \A a \in dots :
       \A dx, dy \in {-step, 0, step} :
         (<<a[1] + dx, a[2] + dy>> \in dots /\ <<dx, dy>> # <<0, 0>>) =>
           \E k \in 1..Len(connections) :
             \/ connections[k] = <<a, <<a[1] + dx, a[2] + dy>>>>
             \/ connections[k] = <<<<a[1] + dx, a[2] + dy>>, a>>

\* Two dots at distance at most 1.5 * step are lattice neighbours, and conversely.
NearIsNeighbour(step, dots) ==
  \A a, b \in dots :
    a # b => (4 * DistSq(a, b) <= 9 * step * step <=> LatticeNeighbours(step, a, b))

\* C19: in a geometric pattern, with step = max(1, (10 - complexity) // 3), two distinct
\* grid dots are connected if and only if their distance is <= 1.5 * step, which on the
\* lattice means exactly the horizontal, vertical and diagonal neighbours (coordinate
\* differences in {0, step}, not both 0); each such pair appears exactly once.
C19_GeometricConnections ==
  (SynthDone /\ result.exc = "" /\ result.pattern.pattern_type = "geometric") =>
    /\ NearIsNeighbour(Max(1, (10 - request.complexity) \div 3), {Dots[k] : k \in 1..Len(Dots)})
    /\ NeighbourPairsOnce(Max(1, (10 - request.complexity) \div 3), request.gridSize,
                          {Dots[k] : k \in 1..Len(Dots)}, Connections)

\* A geometric pattern sampled at step 2 with the diagonal (0, 0)-(2, 2) connected and the
\* dots (0, 0) and (4, 0) not.
C19_Witness ==
  /\ SynthDone
  /\ request.archetype = "geometric"
  /\ request.complexity = 4
  /\ request.gridSize = 5
  /\ \E k \in 1..Len(Connections) : Connections[k] = <<<<0, 0>>, <<2, 2>>>>
  /\ \E k \in 1..Len(Dots) : Dots[k] = <<4, 0>>
  /\ \A k \in 1..Len(Connections) : Connections[k] # <<<<0, 0>>, <<4, 0>>>>

\* The number of steps i >= 0 whose radius i * (0.3 + complexity / 20) is below center - 1
SpiralExtent(center, complexity) ==
  Cardinality({i \in 0..(20 * center) : SpiralRadiusNum(i, complexity) < 20 * (center - 1)})

\* C20: for every gridSize >= 3 and complexity in 1..9 the spiral walk generates a point
\* for every step i >= 0 whose radius is below center - 1 and stops only because the radius
\* has reached center - 1: every such point lies in the grid, so the walk leaves one
\* connection less than there are such steps.
C20_SpiralWalksToTheEdge ==
  (SynthDone /\ result.exc = "" /\ request.archetype = "spiral") =>
    Len(Connections) = Max(SpiralExtent(request.gridSize \div 2, request.complexity) - 1, 0)

\* The points the spiral walk retains, in order (before list(set(...)) drops repeats).
SpiralRetained(center, grid_size, complexity) ==
  SpiralWalk(center, grid_size, complexity, SpiralSteps(center, complexity), 0, <<>>, <<>>, <<>>).dots

\* The path through the points in order: (p0, p1), (p1, p2), ..., (p(n-1), pn)
PathThrough(points) ==
  [k \in 1..Max(Len(points) - 1, 0) |-> <<points[k], points[k + 1]>>]

\* C21: the spiral's connections form a single path: if the walk retains p0, p1, ..., pn
\* in order, the connection sequence is exactly (p0, p1), (p1, p2), ..., (p(n-1), pn), n
\* connections for n + 1 retained points, each connection ending where the next begins.
C21_SpiralIsAPath ==
  (SynthDone /\ result.exc = "" /\ request.archetype = "spiral") =>
    /\ Connections = PathThrough(SpiralRetained(request.gridSize \div 2, request.gridSize,
                                                request.complexity))
    /\ \A k \in 1..(Len(Connections) - 1) : Connections[k][2] = Connections[k + 1][1]

\* The spiral on grid 9 at complexity 5: six retained points, five connections, the walk
\* going (4, 4) -> (4, 5) -> (4, 6) -> (2, 5).
C21_Witness ==
  /\ SynthDone
  /\ request.archetype = "spiral"
  /\ request.gridSize = 9
  /\ request.complexity = 5
  /\ Len(Connections) = 5
  /\ Connections[3] = <<<<4, 4>>, <<4, 5>>>>
  /\ Connections[4] = <<<<4, 5>>, <<4, 6>>>>
  /\ Connections[5] = <<<<4, 6>>, <<2, 5>>>>

\* The connections a mandala has when its rings are selected as Diamond selects them:
\* ring r of 1..center - 1 when r % (10 - complexity) == 0 or r is the maximum radius;
\* each ring's points joined circularly and ring 1's points joined to the center as well.
ConnectionsOfDiamondLikeRings(center, grid_size, complexity, segments) ==
  Concat([ring \in 1..(center - 1) |->
            MandalaRingConnections(center, ring,
              IF ring % (10 - complexity) = 0 \/ ring = center - 1
              THEN MandalaRingDots(center, grid_size, segments, ring) ELSE <<>>)])

\* C22: Mandala ring selection is analogous to Diamond's: a ring of radius r in
\* 1..center - 1 is generated if and only if r % (10 - complexity) == 0 or r is the maximum
\* radius, so the outermost ring is present for every complexity; and whenever ring 1 is
\* generated each of its points is additionally connected to the center.
C22_MandalaRingsLikeDiamond ==
  (SynthDone /\ result.exc = "" /\ request.archetype = "mandala") =>
    Connections = ConnectionsOfDiamondLikeRings(request.gridSize \div 2, request.gridSize,
                                                request.complexity, request.elementCount)

\* The first petal lies at angle 0, at (center + petal_radius, center), and is joined to the
\* center by the first connection.
FirstPetalAt(center, radius, connections) ==
  /\ Len(connections) >= 1
  /\ connections[1] = <<<<center, center>>, <<center + radius, center>>>>

\* C23 as stated: for every gridSize >= 3 and complexity in 1..9 the flower's petal radius
\* equals min(center - 1, 1 + complexity // 2), hence never exceeds center - 1.
C23_PetalRadiusUnfloored ==
  (SynthDone /\ result.exc = "" /\ request.archetype = "flower") =>
    FirstPetalAt(request.gridSize \div 2,
                 Min(request.gridSize \div 2 - 1, 1 + request.complexity \div 2), Connections)

\* C23 amended: the flower's petal radius equals
\* min(center - 1, max(2, 1 + complexity // 2)): 2 at least where the grid allows it; it
\* never exceeds center - 1.
C23_PetalRadius ==
  (SynthDone /\ result.exc = "" /\ request.archetype = "flower") =>
    /\ FirstPetalAt(request.gridSize \div 2,
                    Min(request.gridSize \div 2 - 1, Max(2, 1 + request.complexity \div 2)),
                    Connections)
    /\ Connections[1][2][1] - request.gridSize \div 2 <= request.gridSize \div 2 - 1

\* The flower at complexity 1 on grid 9: the first petal is at radius 2, not at 1.
C23_Witness ==
  /\ SynthDone
  /\ request.archetype = "flower"
  /\ request.gridSize = 9
  /\ request.complexity = 1
  /\ Connections[1] = <<<<4, 4>>, <<6, 4>>>>

\* The pattern's own lists hold what the generator returned.
PatternUntouched ==
  /\ heap["pattern.dots"] = result.pattern.dots
  /\ heap["pattern.connections"] = result.pattern.connections

\* C24: after a generated pattern is transferred to the editor, any sequence of editor
\* operations (add dot, create symmetric pattern, connect dots, clear) leaves the
\* KolamPattern's own dots and connections unchanged: the editor works on a copy and not on
\* the pattern's list objects.
C24_EditorWorksOnACopy ==
  (op = "editor" /\ pc = "transferred") => PatternUntouched

PageDone == op = "page" /\ pc = "done"

\* C25: forced advanced options take effect: with no AI model configured, Force Complexity
\* = v (1..9) and Force Pattern Type = T, for every prompt text the generated pattern has
\* complexity v and pattern type T, and the forced-complexity number is not taken as the
\* element count (the count is the one the user's own prompt gives).
C25_ForcedOptionsTakeEffect ==
  (PageDone /\ form.force_pattern # AutoPattern) =>
    /\ response.success
    /\ result.pattern.complexity = form.force_complexity
    /\ result.pattern.pattern_type = form.force_pattern
    /\ passed["count"] = PyInt(FirstNumber(form.prompt))

\* C26: every endpoint of every connection in a returned pattern is a member of that
\* pattern's dots, for every archetype and every valid request (Lotus included, whose inner
\* endpoint is recomputed rather than looked up).
C26_EndpointsAreDots ==
  (SynthDone /\ result.exc = "") =>
    \A k \in 1..Len(Connections) :
      /\ Connections[k][1] \in {Dots[j] : j \in 1..Len(Dots)}
      /\ Connections[k][2] \in {Dots[j] : j \in 1..Len(Dots)}

\* The lotus on grid 9 at complexity 5 with 8 petals: the outer petal (6, 5) hangs on the
\* recomputed inner endpoint (6, 4), which is one of the 17 dots.
C26_Witness ==
  /\ SynthDone
  /\ request.archetype = "lotus"
  /\ request.gridSize = 9
  /\ request.complexity = 5
  /\ request.elementCount = 8
  /\ Len(Dots) = 17
  /\ Connections[9] = <<<<6, 4>>, <<6, 5>>>>
  /\ \E j \in 1..Len(Dots) : Dots[j] = <<6, 4>>

\* Both radii of the star are at most center, and none of its candidate points is
\* discarded: the outer and the inner list hold exactly `points` entries.
StarKeepsEveryPoint(center, grid_size, outer_radius, inner_radius, points) ==
  /\ outer_radius <= center
  /\ inner_radius <= center
  /\ Len(StarOuterPoints(center, grid_size, outer_radius, points)) = points
  /\ Len(StarInnerPoints(center, grid_size, inner_radius, points)) = points

\* C27: for every gridSize >= 3 the out-of-bounds discard never fires in the Star generator:
\* every radius used is <= center, so outer_points and inner_points each hold exactly
\* `points` entries, the indexing outer_points[i], inner_points[i - 1], inner_points[i] for
\* i in 0..points - 1 is always in range, and the synthesis is not aborted: the connection
\* loop runs to its end.
C27_StarDiscardsNothing ==
  (SynthDone /\ request.archetype = "star") =>
    /\ StarKeepsEveryPoint(request.gridSize \div 2, request.gridSize,
                           StarOuterRadius(request.gridSize \div 2),
                           StarInnerRadius(StarOuterRadius(request.gridSize \div 2)),
                           request.elementCount)
    /\ result.exc = ""
    /\ Len(Connections) = request.elementCount * (IF request.complexity > 6 THEN 3 ELSE 2)

\* The star on grid 3, where the inner radius max(1, 0 // 2) = 1 equals center: with 8
\* points at complexity 7 all 24 connections are there, the inner point at half a step
\* among them at (1, 1) + (int(0.92), int(0.38)) = (1, 1).
C27_Witness ==
  /\ SynthDone
  /\ request.archetype = "star"
  /\ request.gridSize = 3
  /\ request.elementCount = 8
  /\ request.complexity = 7
  /\ result.exc = ""
  /\ Len(Connections) = 24

\* C28: every returned pattern is non-empty: for every archetype, every odd gridSize >= 3
\* (gridSize = 3 included) and every complexity in 1..9 the result has at least one dot.
C28_PatternNonEmpty ==
  (SynthDone /\ result.exc = "") => Len(Dots) >= 1

AnalyzeDone == op = "analyze" /\ pc = "done"

\* Every keyword of the table, as the prompt, is given the key it is listed under.
KeywordGetsItsKey(table, prompt, value) ==
  \A k \in 1..Len(table) :
    \A j \in 1..Len(table[k].words) :
      prompt = table[k].words[j] => value = table[k].key

\* C29: the keyword tables of _analyze_prompt are unambiguous: for every keyword listed
\* under a complexity level L and every keyword listed under a symmetry class S, a prompt
\* consisting of exactly that keyword is assigned complexity L, respectively symmetry S; no
\* earlier table entry that is a substring of the keyword captures it first.
C29_KeywordsUnambiguous ==
  AnalyzeDone =>
    /\ KeywordGetsItsKey(complexity_keywords, call.prompt, analysis["complexity"].v)
    /\ KeywordGetsItsKey(symmetry_keywords, call.prompt, analysis["symmetry_type"].v)

\* The raw guidance supplies a valid value for the field.
RawSupplies(field, valid) == field \in DOMAIN raw /\ InStrs(raw[field], valid)

\* C30: when the guidance of a parsed reply is merged into the prompt analysis, pattern_type
\* and symmetry_type are overridden only if the raw guidance itself supplied a valid value
\* for the field; a guidance that omits the field or supplies an invalid value leaves the
\* keyword-derived value of the prompt analysis in place.
C30_MergeKeepsPromptValues ==
  (GenerateDone /\ call.model /\ call.reply.kind = "json") =>
    /\ ~RawSupplies("pattern_type", valid_patterns) =>
         passed["pattern_type"] = analyze_prompt(call.prompt)["pattern_type"]
    /\ ~RawSupplies("symmetry_type", valid_symmetries) =>
         passed["symmetry_type"] = analyze_prompt(call.prompt)["symmetry_type"]

====
